---- MODULE Spec2Model ----
(***************************************************************************)
(* Geodesic morphology of Morph: the primitive and geodesic operators, the *)
(* reconstruction engine, propagation_function, Center.ultimate, the       *)
(* signed layer and distance transforms and the per-label reducers.        *)
(*                                                                         *)
(* An image is a tuple of rows, each row a tuple of pixel values, so       *)
(* image[r][c] is the pixel of row r and column c.  Tuples are indexed     *)
(* from 1: pixel <<r, c>> of the model is numpy's [r-1, c-1].  A           *)
(* structuring element is a record: given is FALSE when the caller passed  *)
(* element=None, fp is the set of offsets <<dr, dc>> (relative to the      *)
(* centre of a 3x3 array) at which the array is true.                      *)
(***************************************************************************)
EXTENDS Integers, Sequences, FiniteSets

VARIABLES op, pc, input, image, element, points, seed, dilated,
          reconstructed, i, propagation, centers, marker, mask, out, prev, k,
          tissue, method, border_value, layers, distances,
          heap, names, results, unspecified, workers, kwargs, data, G, calls,
          arguments

\* The state of _layer and _distance and of their callers.
tvars == <<tissue, method, border_value, layers, distances>>

\* The arrays as objects (heap, names, results, unspecified), the seeds
\* handled side by side (workers), the padding callback (kwargs), the
\* counter (data, G) and the pipeline (data, calls, arguments).
ovars == <<heap, names, results, unspecified, workers, kwargs, data, G, calls,
           arguments>>

vars == <<op, pc, input, image, element, points, seed, dilated,
          reconstructed, i, propagation, centers, marker, mask, out, prev, k,
          tissue, method, border_value, layers, distances,
          heap, names, results, unspecified, workers, kwargs, data, G, calls,
          arguments>>

\* ------------------------------------------------------------------ bounds
\* Largest number of rows and of columns of an image.
MaxRows == 3
MaxCols == 3
\* Largest number of pixels of a binary image.
MaxArea == 9
\* Largest number of pixels of a labeled image, and the largest label.
MaxLabArea == 6
MaxLabel == 2
\* Cap on the step counters of loops that need not terminate.
MaxSteps == 8
\* Largest number of pixels of an image that comes with a tissue mask.
MaxTissueArea == 4
\* Largest number of pixels of a marker or mask of a call whose two arrays
\* need not have one shape.
MaxShapeArea == 4
\* Largest number of records of the data handed to a counter, and the
\* largest coordinate of a record.
MaxRecords == 3
MaxCoordinate == 1

\* ------------------------------------------------------------- arithmetic
Min2(a, b) == IF a <= b THEN a ELSE b
Max2(a, b) == IF a >= b THEN a ELSE b
SetMin(S) == CHOOSE m \in S : \A n \in S : m <= n
SetMax(S) == CHOOSE m \in S : \A n \in S : m >= n

\* ------------------------------------------------------------ numpy arrays
Rows(a) == Len(a)
Cols(a) == Len(a[1])
Pixels(a) == (1..Rows(a)) \X (1..Cols(a))
\* A 2D array from its rows, a row from its pixels: tuples, as numpy
\* materialises every array it returns.
row(f) == <<>> \o f
array(f) == <<>> \o f
\* numpy.zeros(shape)
zeros(rows, cols) == array([r \in 1..rows |-> row([c \in 1..cols |-> 0])])
\* numpy.zeros_like
zeros_like(a) == array([r \in 1..Rows(a) |-> row([c \in 1..Cols(a) |-> 0])])
\* numpy broadcasting of two 2D arrays: along each axis the lengths are
\* equal or one of them is 1, and an axis of length 1 is repeated.
broadcastable(a, b) ==
    /\ Rows(a) = Rows(b) \/ Rows(a) = 1 \/ Rows(b) = 1
    /\ Cols(a) = Cols(b) \/ Cols(a) = 1 \/ Cols(b) = 1
broadcast(a, r, c) ==
    a[IF Rows(a) = 1 THEN 1 ELSE r][IF Cols(a) = 1 THEN 1 ELSE c]
\* numpy.minimum / numpy.maximum, pointwise
minimum(a, b) ==
    array([r \in 1..Max2(Rows(a), Rows(b)) |->
        row([c \in 1..Max2(Cols(a), Cols(b)) |->
            Min2(broadcast(a, r, c), broadcast(b, r, c))])])
maximum(a, b) ==
    array([r \in 1..Max2(Rows(a), Rows(b)) |->
        row([c \in 1..Max2(Cols(a), Cols(b)) |->
            Max2(broadcast(a, r, c), broadcast(b, r, c))])])
\* numpy.where(image) / numpy.nonzero: the nonzero coordinates, row-major
RECURSIVE RowMajor(_, _, _)
RowMajor(a, r, c) ==
    IF r > Rows(a) THEN <<>>
    ELSE IF c > Cols(a) THEN RowMajor(a, r + 1, 1)
    ELSE (IF a[r][c] # 0 THEN <<(<<r, c>>)>> ELSE <<>>) \o RowMajor(a, r, c + 1)
nonzero(a) == RowMajor(a, 1, 1)
\* numpy.any
any(a) == \E p \in Pixels(a) : a[p[1]][p[2]] # 0
\* unique values that keep the background value
unique_with_zero(a) == {a[p[1]][p[2]] : p \in Pixels(a)}
\* numpy.unique of the nonzero values
unique(a) == {a[p[1]][p[2]] : p \in Pixels(a)} \ {0}
\* a - b, pointwise
subtract(a, b) ==
    array([r \in 1..Rows(a) |-> row([c \in 1..Cols(a) |-> a[r][c] - b[r][c]])])

\* ----------------------------------------------------- structuring elements
Cross == {<<0, 0>>, <<-1, 0>>, <<1, 0>>, <<0, -1>>, <<0, 1>>}
Full == (-1..1) \X (-1..1)
East == {<<0, 0>>, <<0, 1>>}
None == [given |-> FALSE, fp |-> {}]
Array(fp) == [given |-> TRUE, fp |-> fp]

\* skimage.morphology.erosion / dilation with footprint=None use the
\* cross-shaped footprint of connectivity 1 ...
default_footprint(el) == IF el.given THEN el.fp ELSE Cross
\* ... while skimage.morphology.reconstruction with footprint=None uses the
\* full 3x3 square.
reconstruction_footprint(el) == IF el.given THEN el.fp ELSE Full

\* Border mode "reflect" (d c b a | a b c d | d c b a): for a footprint of
\* radius 1 the index just outside the array is the index of the edge.
Reflect(n, len) == IF n < 1 THEN 1 ELSE IF n > len THEN len ELSE n
At(a, r, c) == a[Reflect(r, Rows(a))][Reflect(c, Cols(a))]

\* ------------------------------------------------------ primitive operators
\* skimage.morphology.erosion: out[p] = min of image[p + d], d in footprint
erosion(a, el) ==
    array([r \in 1..Rows(a) |-> row([c \in 1..Cols(a) |->
        SetMin({At(a, r + d[1], c + d[2]) : d \in default_footprint(el)})])])

\* dilation that ignores the element it is given
dilation_cross(a, el) ==
    array([r \in 1..Rows(a) |-> row([c \in 1..Cols(a) |->
        SetMax({At(a, r + d[1], c + d[2]) : d \in Cross})])])

\* skimage.morphology.dilation mirrors the footprint before scipy's
\* grey_dilation mirrors it again: out[p] = max of image[p + d]
dilation(a, el) ==
    array([r \in 1..Rows(a) |-> row([c \in 1..Cols(a) |->
        SetMax({At(a, r + d[1], c + d[2]) : d \in default_footprint(el)})])])

\* ------------------------------------------------------- geodesic operators
\* geodesic erosion that forgets the mask
geodesic_erosion_unclamped(marker_image, mask_image, el) ==
    erosion(marker_image, el)

\* geodesic dilation that forgets the mask
geodesic_dilation_unclamped(marker_image, mask_image, el) ==
    dilation(marker_image, el)

\* geodesic dilation that clamps from the wrong side
geodesic_dilation_maximum(marker_image, mask_image, el) ==
    maximum(mask_image, dilation(marker_image, el))

\* geodesic dilation that stays inside the labels the marker lies on
geodesic_dilation_same_label(marker_image, mask_image, el) ==
    LET grown == minimum(mask_image, dilation(marker_image, el))
        own == {mask_image[p[1]][p[2]] :
                   p \in {q \in Pixels(marker_image) :
                              marker_image[q[1]][q[2]] # 0}}
    IN  array([r \in 1..Rows(grown) |-> row([c \in 1..Cols(grown) |->
            IF mask_image[r][c] \in own THEN grown[r][c] ELSE 0])])

geodesic_erosion(marker_image, mask_image, el) ==
    maximum(mask_image, erosion(marker_image, el))

geodesic_dilation(marker_image, mask_image, el) ==
    minimum(mask_image, dilation(marker_image, el))

\* ----------------------------------------------------- reconstruction engine
\* skimage.morphology.reconstruction refuses a seed that crosses the mask.
reconstruction_raises(seed_image, mask_image, method_) ==
    \E p \in Pixels(seed_image) :
        IF method_ = "dilation"
        THEN seed_image[p[1]][p[2]] > mask_image[p[1]][p[2]]
        ELSE seed_image[p[1]][p[2]] < mask_image[p[1]][p[2]]

\* The neighbours q - d of q that lie inside the array: reconstruction pads
\* the seed with its extreme value, which never changes a pixel, and it
\* propagates a pixel's value to the pixels at its footprint offsets.
Sources(a, q, fp) ==
    {<<q[1] - d[1], q[2] - d[2]>> : d \in fp} \cap Pixels(a)

RECURSIVE ReconstructionLoop(_, _, _, _)
ReconstructionLoop(x, mask_image, fp, method_) ==
    LET y == array([r \in 1..Rows(x) |-> row([c \in 1..Cols(x) |->
                LET vals == {x[r][c]} \cup
                            {x[s[1]][s[2]] : s \in Sources(x, <<r, c>>, fp)}
                IN  IF method_ = "dilation"
                    THEN Min2(mask_image[r][c], SetMax(vals))
                    ELSE Max2(mask_image[r][c], SetMin(vals))])])
    IN  IF y = x THEN x ELSE ReconstructionLoop(y, mask_image, fp, method_)

\* reconstruction by dilation that is not held under the mask
reconstruction_unclamped(marker_image, mask_image, el) ==
    ReconstructionLoop(marker_image,
                       array([r \in 1..Rows(mask_image) |->
                              row([c \in 1..Cols(mask_image) |-> MaxLabel])]),
                       reconstruction_footprint(el), "dilation")

reconstruction_by_erosion(marker_image, mask_image, el) ==
    ReconstructionLoop(marker_image, mask_image,
                       reconstruction_footprint(el), "erosion")

reconstruction_by_dilation(marker_image, mask_image, el) ==
    ReconstructionLoop(marker_image, mask_image,
                       reconstruction_footprint(el), "dilation")

\* ------------------------------------------------------------------ inputs
Elements == {None, Array(Cross), Array(Full), Array(East)}
Shapes(area) == {s \in (1..MaxRows) \X (1..MaxCols) : s[1] * s[2] <= area}
Arrays(s, top) == {array(a) : a \in [1..s[1] -> {row(w) : w \in [1..s[2] -> 0..top]}]}
\* Binary images of every shape, labeled images of the small shapes.
Images(area) ==
    UNION {Arrays(s, IF s[1] * s[2] <= MaxLabArea THEN MaxLabel ELSE 1) :
           s \in Shapes(area)}
Nothing == <<>>
\* No transform is running.
NoTransform ==
    /\ tissue = Nothing /\ method = "none" /\ border_value = 0
    /\ layers = Nothing /\ distances = Nothing
\* Nothing but the function under study is running.
NoOther ==
    /\ heap = Nothing /\ names = Nothing /\ results = Nothing
    /\ unspecified = 0 /\ workers = Nothing /\ kwargs = Nothing
    /\ data = Nothing /\ G = {} /\ calls = Nothing /\ arguments = Nothing

\* ------------------------------------------------------ propagation_function
InitPropagation ==
    /\ op = "propagation_function"
    /\ pc = "for"
    /\ element \in Elements
    /\ input \in Images(MaxArea)
    /\ image = input
    /\ points = nonzero(image)
    /\ propagation = zeros_like(image)
    /\ seed = Nothing /\ dilated = Nothing /\ reconstructed = Nothing
    /\ i = 0
    /\ centers = Nothing /\ marker = Nothing /\ mask = Nothing
    /\ out = Nothing /\ prev = Nothing /\ k = 0
    /\ NoTransform /\ NoOther

\* for x, y in zip(*points): the seed, its reconstruction, i = 0
ForSeed ==
    /\ op = "propagation_function" /\ pc = "for" /\ points # <<>>
    /\ LET p == Head(points)
           d == [zeros_like(image) EXCEPT ![p[1]][p[2]] = 1]
       IN  /\ seed' = p
           /\ dilated' = d
           /\ points' = Tail(points)
           /\ IF reconstruction_raises(d, image, "dilation")
              THEN /\ pc' = "raised"
                   /\ UNCHANGED reconstructed
              ELSE /\ pc' = "while"
                   /\ reconstructed' = reconstruction_by_dilation(d, image, element)
    /\ i' = 0
    /\ UNCHANGED <<op, input, image, element, propagation, centers, marker,
                   mask, out, prev, k, tvars,
                   ovars>>

\* while not numpy.array_equal(dilated, reconstructed): one more step
WhileStep ==
    /\ op = "propagation_function" /\ pc = "while"
    /\ dilated # reconstructed
    /\ i < MaxSteps
    /\ dilated' = geodesic_dilation(dilated, image, element)
    /\ i' = i + 1
    /\ UNCHANGED <<op, pc, input, image, element, points, seed, reconstructed,
                   propagation, centers, marker, mask, out, prev, k, tvars,
                   ovars>>

\* the loop condition is false: propagation[x, y] = i
WhileExit ==
    /\ op = "propagation_function" /\ pc = "while"
    /\ dilated = reconstructed
    /\ propagation' = [propagation EXCEPT ![seed[1]][seed[2]] = i]
    /\ pc' = "for"
    /\ UNCHANGED <<op, input, image, element, points, seed, dilated,
                   reconstructed, i, centers, marker, mask, out, prev, k, tvars,
                   ovars>>

\* return propagation
ReturnPropagation ==
    /\ op = "propagation_function" /\ pc = "for" /\ points = <<>>
    /\ pc' = "done"
    /\ UNCHANGED <<op, input, image, element, points, seed, dilated,
                   reconstructed, i, propagation, centers, marker, mask, out,
                   prev, k, tvars,
                   ovars>>

NextPropagation == ForSeed \/ WhileStep \/ WhileExit \/ ReturnPropagation

SpecPropagation == InitPropagation /\ [][NextPropagation]_vars

\* ----------------------------------------------------------- Center.ultimate
InitUltimate ==
    /\ op = "ultimate"
    /\ pc = "while"
    /\ element \in Elements
    /\ input \in Images(MaxArea)
    /\ image = input
    /\ centers = [l \in unique(input) |-> {}]
    /\ points = Nothing /\ propagation = Nothing
    /\ seed = Nothing /\ dilated = Nothing /\ reconstructed = Nothing
    /\ i = 0
    /\ marker = Nothing /\ mask = Nothing
    /\ out = Nothing /\ prev = Nothing /\ k = 0
    /\ NoTransform /\ NoOther

\* One pass of the body of `while _any(image)`: erode, reconstruct against
\* the image of this pass, record image - reconstructed under the label
\* read from the image of this pass, image = eroded.
UltimateStep ==
    /\ op = "ultimate" /\ pc = "while"
    /\ any(image)
    /\ \E eroded \in {erosion(image, element)} :
         IF reconstruction_raises(eroded, image, "dilation")
         THEN /\ pc' = "raised"
              /\ UNCHANGED <<image, centers>>
         ELSE \E rec \in {reconstruction_by_dilation(eroded, image, element)} :
              \E pts \in {nonzero(subtract(image, rec))} :
                LET P == {pts[n] : n \in 1..Len(pts)}
                IN  IF \E p \in P : image[p[1]][p[2]] \notin DOMAIN centers
                    THEN /\ pc' = "raised"
                         /\ UNCHANGED <<image, centers>>
                    ELSE /\ centers' = [l \in DOMAIN centers |->
                                centers[l] \cup {p \in P : image[p[1]][p[2]] = l}]
                         /\ image' = eroded
                         /\ pc' = "while"
    /\ UNCHANGED <<op, input, element, points, seed, dilated, reconstructed, i,
                   propagation, marker, mask, out, prev, k, tvars,
                   ovars>>

\* the working image has no foreground pixel: return centers
UltimateReturn ==
    /\ op = "ultimate" /\ pc = "while"
    /\ ~any(image)
    /\ pc' = "done"
    /\ UNCHANGED <<op, input, image, element, points, seed, dilated,
                   reconstructed, i, propagation, centers, marker, mask, out,
                   prev, k, tvars,
                   ovars>>

NextUltimate == UltimateStep \/ UltimateReturn

SpecUltimate == InitUltimate /\ [][NextUltimate]_vars

\* ------------------------------------- geodesic operators and reconstruction
\* A caller of the pure operators: it holds a marker and a mask of one
\* shape, calls an operator, and may call the geodesic operator again on
\* what it got back.  prev is the marker argument of the latest call, k the
\* number of calls made so far.  The pairs: one pixel of an image under the
\* image, a binary image over one pixel of it, a seed on a background pixel
\* of the image.
\* Labeled images that are at least as wide as high: the operators commute
\* with transposition.
WideImages ==
    UNION {Arrays(s, MaxLabel) : s \in {t \in Shapes(MaxLabArea) : t[1] <= t[2]}}
Binary(a) == \A p \in Pixels(a) : a[p[1]][p[2]] <= 1
OnePixel(a, p) ==
    array([r \in 1..Rows(a) |-> row([c \in 1..Cols(a) |->
        IF <<r, c>> = p THEN a[r][c] ELSE 0])])

InitOperators ==
    /\ op = "caller"
    /\ pc = "call"
    /\ element \in {None, Array(Full), Array(East)}
    /\ \E a \in WideImages : \E p \in Pixels(a) :
         \E b \in {OnePixel(a, p)} :
            \/ marker = b /\ mask = a
            \/ Binary(a) /\ marker = a /\ mask = b
            \/ /\ Binary(a) /\ a[p[1]][p[2]] = 0
               /\ marker = [zeros_like(a) EXCEPT ![p[1]][p[2]] = 1]
               /\ mask = a
    /\ out = Nothing /\ prev = Nothing /\ k = 0
    /\ input = Nothing /\ image = Nothing
    /\ points = Nothing /\ propagation = Nothing /\ centers = Nothing
    /\ seed = Nothing /\ dilated = Nothing /\ reconstructed = Nothing
    /\ i = 0
    /\ NoTransform /\ NoOther

Frame == UNCHANGED <<input, image, element, points, seed, dilated,
                     reconstructed, i, propagation, centers, marker, mask,
                     tvars, ovars>>

GeodesicDilation ==
    /\ pc = "call"
    /\ op' = "geodesic_dilation" /\ pc' = "returned"
    /\ prev' = marker /\ k' = 1
    /\ out' = geodesic_dilation(marker, mask, element)
    /\ Frame

GeodesicDilationAgain ==
    /\ op = "geodesic_dilation" /\ pc = "returned"
    /\ out # prev /\ k < MaxSteps
    /\ prev' = out /\ k' = k + 1
    /\ out' = geodesic_dilation(out, mask, element)
    /\ UNCHANGED <<op, pc>>
    /\ Frame

GeodesicErosion ==
    /\ pc = "call"
    /\ op' = "geodesic_erosion" /\ pc' = "returned"
    /\ prev' = marker /\ k' = 1
    /\ out' = geodesic_erosion(marker, mask, element)
    /\ Frame

GeodesicErosionAgain ==
    /\ op = "geodesic_erosion" /\ pc = "returned"
    /\ out # prev /\ k < MaxSteps
    /\ prev' = out /\ k' = k + 1
    /\ out' = geodesic_erosion(out, mask, element)
    /\ UNCHANGED <<op, pc>>
    /\ Frame

ReconstructionByDilation ==
    /\ pc = "call"
    /\ op' = "reconstruction_by_dilation"
    /\ prev' = marker /\ k' = 1
    /\ IF reconstruction_raises(marker, mask, "dilation")
       THEN pc' = "raised" /\ UNCHANGED out
       ELSE /\ pc' = "returned"
            /\ out' = reconstruction_by_dilation(marker, mask, element)
    /\ Frame

ReconstructionByErosion ==
    /\ pc = "call"
    /\ op' = "reconstruction_by_erosion"
    /\ prev' = marker /\ k' = 1
    /\ IF reconstruction_raises(marker, mask, "erosion")
       THEN pc' = "raised" /\ UNCHANGED out
       ELSE /\ pc' = "returned"
            /\ out' = reconstruction_by_erosion(marker, mask, element)
    /\ Frame

\* one more geodesic_dilation step on a reconstruction by dilation
DilateReconstruction ==
    /\ op = "reconstruction_by_dilation" /\ pc = "returned"
    /\ pc' = "stepped"
    /\ prev' = out /\ k' = k + 1
    /\ out' = geodesic_dilation(out, mask, element)
    /\ UNCHANGED op
    /\ Frame

\* one more geodesic_erosion step on a reconstruction by erosion
ErodeReconstruction ==
    /\ op = "reconstruction_by_erosion" /\ pc = "returned"
    /\ pc' = "stepped"
    /\ prev' = out /\ k' = k + 1
    /\ out' = geodesic_erosion(out, mask, element)
    /\ UNCHANGED op
    /\ Frame

NextOperators ==
    \/ GeodesicDilation \/ GeodesicDilationAgain
    \/ GeodesicErosion \/ GeodesicErosionAgain
    \/ ReconstructionByDilation \/ ReconstructionByErosion
    \/ DilateReconstruction \/ ErodeReconstruction

SpecOperators == InitOperators /\ [][NextOperators]_vars

\* ------------------------------------ geodesic operators on any two shapes
\* A caller that passes a marker and a mask that need not have one shape.
ShapeImages == UNION {Arrays(s, 1) : s \in Shapes(MaxShapeArea)}

InitShapes ==
    /\ op = "caller"
    /\ pc = "call"
    /\ element \in {None, Array(Full)}
    /\ marker \in ShapeImages
    /\ mask \in ShapeImages
    /\ out = Nothing /\ prev = Nothing /\ k = 0
    /\ input = Nothing /\ image = Nothing
    /\ points = Nothing /\ propagation = Nothing /\ centers = Nothing
    /\ seed = Nothing /\ dilated = Nothing /\ reconstructed = Nothing
    /\ i = 0
    /\ NoTransform /\ NoOther

\* geodesic_dilation: numpy.minimum raises ValueError when the two shapes
\* cannot be broadcast, and broadcasts them otherwise
GeodesicDilationAnyShape ==
    /\ op = "caller" /\ pc = "call"
    /\ op' = "geodesic_dilation"
    /\ prev' = marker /\ k' = 1
    /\ IF broadcastable(mask, dilation(marker, element))
       THEN /\ pc' = "returned"
            /\ out' = geodesic_dilation(marker, mask, element)
       ELSE pc' = "raised" /\ UNCHANGED out
    /\ Frame

\* geodesic_erosion: the same with numpy.maximum
GeodesicErosionAnyShape ==
    /\ op = "caller" /\ pc = "call"
    /\ op' = "geodesic_erosion"
    /\ prev' = marker /\ k' = 1
    /\ IF broadcastable(mask, erosion(marker, element))
       THEN /\ pc' = "returned"
            /\ out' = geodesic_erosion(marker, mask, element)
       ELSE pc' = "raised" /\ UNCHANGED out
    /\ Frame

NextShapes == GeodesicDilationAnyShape \/ GeodesicErosionAnyShape

SpecShapes == InitShapes /\ [][NextShapes]_vars

\* --------------------------------------------- layer and distance transforms
\* Boolean arrays hold 0 and 1.  image != 0
not_equal(a) ==
    array([r \in 1..Rows(a) |-> row([c \in 1..Cols(a) |->
        IF a[r][c] # 0 THEN 1 ELSE 0])])
\* ~image
invert(a) ==
    array([r \in 1..Rows(a) |-> row([c \in 1..Cols(a) |-> 1 - a[r][c]])])
\* numpy.ones_like
ones_like(a) == array([r \in 1..Rows(a) |-> row([c \in 1..Cols(a) |-> 1])])
\* a masked assignment that assigns nothing
assign_nowhere(a, where, value) == a
\* a[where == 0] = value
assign_where_zero(a, where, value) ==
    array([r \in 1..Rows(a) |-> row([c \in 1..Cols(a) |->
        IF where[r][c] = 0 THEN value ELSE a[r][c]])])
\* an accumulation that overwrites
add_overwrite(a, b) == b
\* in-place a += b
add(a, b) ==
    array([r \in 1..Rows(a) |-> row([c \in 1..Cols(a) |-> a[r][c] + b[r][c]])])
\* if tissue is None: tissue = numpy.ones_like(image)
tissue_or_ones(t, a) == IF t = Nothing THEN ones_like(a) ELSE t

\* scipy.ndimage.binary_erosion with structure=None uses the cross of
\* connectivity 1.
binary_structure(el) == IF el.given THEN el.fp ELSE Cross
\* scipy.ndimage.binary_erosion, one iteration: a pixel stays when every
\* pixel under the structure is foreground; a pixel outside the array has
\* the value border_value.
binary_erosion(a, el, border) ==
    array([r \in 1..Rows(a) |-> row([c \in 1..Cols(a) |->
        IF \A d \in binary_structure(el) :
              IF <<r + d[1], c + d[2]>> \in Pixels(a)
              THEN a[r + d[1]][c + d[2]] # 0
              ELSE border # 0
        THEN 1 ELSE 0])])

\* The callers: which boolean image and which border value each of the two
\* calls of _layer / _distance gets.  The first call gets ~image, the
\* second image.
Transforms == {"Distance.minimum", "Distance.maximum",
               "Layer.minimum", "Layer.maximum"}
IsLayer == op \in {"Layer.minimum", "Layer.maximum"}
IsDistance == op \in {"Distance.minimum", "Distance.maximum"}
CallImage(name, call, a) ==
    IF call = 1 THEN invert(not_equal(a)) ELSE not_equal(a)
CallBorder(name, call) ==
    IF name \in {"Distance.minimum", "Layer.minimum"}
    THEN (IF call = 1 THEN 0 ELSE 1)
    ELSE (IF call = 1 THEN 1 ELSE 0)

\* Inputs: an image, and a tissue mask (None or an array) for small images.
TissueMasks(a) ==
    {Nothing} \cup
    (IF Rows(a) * Cols(a) <= MaxTissueArea
     THEN Arrays(<<Rows(a), Cols(a)>>, 1) ELSE {})
\* Labeled images of one row, binary images of every shape.
TransformImages ==
    UNION {Arrays(s, IF s[1] = 1 THEN MaxLabel ELSE 1) : s \in Shapes(MaxArea)}
LayerElements == {None, Array(Full), Array(East)}
Tags == {"none", "visium", "xenium"}

InitTransforms ==
    /\ op \in Transforms
    /\ pc = "call"
    /\ k = 1
    /\ IF op \in {"Layer.minimum", "Layer.maximum"}
       THEN element \in LayerElements /\ method = "none"
       ELSE element = None /\ method \in Tags
    /\ input \in TransformImages
    /\ tissue \in TissueMasks(input)
    /\ image = Nothing /\ border_value = 0
    /\ layers = Nothing /\ distances = Nothing
    /\ out = Nothing /\ prev = Nothing /\ i = 0
    /\ points = Nothing /\ propagation = Nothing /\ centers = Nothing
    /\ seed = Nothing /\ dilated = Nothing /\ reconstructed = Nothing
    /\ marker = Nothing /\ mask = Nothing
    /\ NoOther

TransformFrame == UNCHANGED <<op, input, element, seed, dilated, reconstructed,
                              propagation, centers, marker, mask, tissue,
                              method, ovars>>

\* _layer, up to the loop: the tissue default, image[tissue == 0] =
\* border_value, layers = image * 1
LayerEnter ==
    /\ IsLayer /\ pc = "call"
    /\ \E b \in {CallBorder(op, k)} :
       \E a \in {assign_where_zero(CallImage(op, k, input),
                                   tissue_or_ones(tissue, input), b)} :
         /\ border_value' = b
         /\ image' = a
         /\ layers' = a
    /\ i' = 0
    /\ pc' = "while"
    /\ UNCHANGED <<k, out, prev, points, distances>>
    /\ TransformFrame

\* one pass of `while _any(image)`: erode in place, layers += image
LayerErode ==
    /\ IsLayer /\ pc = "while"
    /\ any(image)
    /\ i < MaxSteps
    /\ \E eroded \in {binary_erosion(image, element, border_value)} :
         /\ image' = eroded
         /\ layers' = add(layers, eroded)
    /\ i' = i + 1
    /\ UNCHANGED <<pc, k, out, prev, points, border_value, distances>>
    /\ TransformFrame

\* the loop is over: layers[tissue == 0] = 0, return layers; the caller
\* keeps the first result and subtracts the second from it
LayerReturn ==
    /\ IsLayer /\ pc = "while"
    /\ ~any(image)
    /\ \E res \in {assign_where_zero(layers, tissue_or_ones(tissue, input), 0)} :
         /\ layers' = res
         /\ IF k = 1
            THEN /\ out' = res /\ prev' = res /\ k' = 2 /\ pc' = "call"
            ELSE /\ out' = subtract(out, res) /\ k' = k /\ pc' = "done"
                 /\ UNCHANGED prev
    /\ UNCHANGED <<image, i, points, border_value, distances>>
    /\ TransformFrame

\* ------------------------------------------------------------------ _distance
\* _padding_func leaves pad changed: pad[0] = 1 - pad[0], then
\* pad[-1] = 1 - pad[-1] (one element flipped twice when pad has one).
padding_func_once(pad) == [pad EXCEPT ![1] = 1 - pad[1]]
padding_func(pad) ==
    LET once == [pad EXCEPT ![1] = 1 - pad[1]]
    IN  [once EXCEPT ![Len(pad)] = 1 - once[Len(pad)]]
\* pad as it is when the n-th invocation of the callback starts
RECURSIVE PadState(_, _)
PadState(pad, n) == IF n <= 1 THEN pad ELSE PadState(padding_func(pad), n - 1)
\* pad = [0, 1] if method == 'visium' and not border_value else [border_value]
initial_pad(tag, border) ==
    IF tag = "visium" /\ border = 0 THEN <<0, 1>> ELSE <<border>>
First(pad) == pad[1]
Last(pad) == pad[Len(pad)]
\* numpy.pad(image, 1, _padding_func, pad=pad): the callback runs once per
\* column (it writes the top and the bottom pixel of the column), then once
\* per row (the left and the right pixel), each time on the pad the
\* invocation before has left.
pad_with(a, pad) ==
    LET R == Rows(a)
        C == Cols(a)
    IN  array([r \in 1..R + 2 |-> row([c \in 1..C + 2 |->
            IF c = 1 THEN First(PadState(pad, C + 2 + r))
            ELSE IF c = C + 2 THEN Last(PadState(pad, C + 2 + r))
            ELSE IF r = 1 THEN First(PadState(pad, c))
            ELSE IF r = R + 2 THEN Last(PadState(pad, c))
            ELSE a[r - 1][c - 1]])])
\* distances[1:-1, 1:-1]
crop(a) ==
    array([r \in 1..Rows(a) - 2 |-> row([c \in 1..Cols(a) - 2 |->
        a[r + 1][c + 1]])])

\* A distance is kept as its square, which is exact.  Sampling 1 on both
\* axes, or [50, 50 * 3**0.5] on the visium path.
SqDist(p, q, tag) ==
    LET dr == p[1] - q[1]
        dc == p[2] - q[2]
    IN  IF tag = "visium" THEN 2500 * dr * dr + 7500 * dc * dc
        ELSE dr * dr + dc * dc
Zeros(a) == {p \in Pixels(a) : a[p[1]][p[2]] = 0}
\* scipy.ndimage.distance_transform_edt: at every nonzero pixel the distance
\* to the nearest zero pixel, 0 at a zero pixel.  For an input without any
\* zero pixel the result is not defined: undefined is the value it has then.
distance_transform_edt(a, tag, undefined) ==
    LET Z == Zeros(a)
    IN  array([r \in 1..Rows(a) |-> row([c \in 1..Cols(a) |->
            IF a[r][c] = 0 THEN 0
            ELSE IF Z = {} THEN undefined
            ELSE SetMin({SqDist(<<r, c>>, z, tag) : z \in Z})])])

\* The visium remap.  shape = 2 * image.shape[0] - image.shape[1], image.shape[1]
unmapped_rows(a) == 2 * Rows(a) - Cols(a)
\* a checkerboard with every cell set
checkerboard_full(rows, cols) ==
    array([X \in 1..rows |-> row([Y \in 1..cols |-> 1])])
\* (a variant: the other colour of the board)
checkerboard_odd(rows, cols) ==
    array([X \in 1..rows |-> row([Y \in 1..cols |-> (X - 1 + Y - 1) % 2])])
\* checkerboard = 1 - sum(grid) % 2: cell <<X, Y>> is numpy's [X-1, Y-1]
checkerboard(rows, cols) ==
    array([X \in 1..rows |-> row([Y \in 1..cols |->
        1 - ((X - 1 + Y - 1) % 2)])])
\* (x + y) // 2, as a row of the model
forward(cell) == ((cell[1] - 1 + cell[2] - 1) \div 2) + 1
\* unmapped = ones; unmapped[x, y] = image[(x + y) // 2, y]
unmapped(a) ==
    array([X \in 1..unmapped_rows(a) |-> row([Y \in 1..Cols(a) |->
        IF checkerboard(unmapped_rows(a), Cols(a))[X][Y] # 0
        THEN a[forward(<<X, Y>>)][Y] ELSE 1])])
\* shape = sum(distances.shape) // 2, distances.shape[1]
mapped_rows(d) == (Rows(d) + Cols(d)) \div 2
\* mapped[(x + y) // 2, y] = distances[x, y]: one write per cell, in order
RECURSIVE WriteBack(_, _, _)
WriteBack(mapped, d, cells) ==
    IF cells = <<>> THEN mapped
    ELSE LET cell == Head(cells)
         IN  WriteBack([mapped EXCEPT ![forward(cell)][cell[2]] =
                            d[cell[1]][cell[2]]],
                       d, Tail(cells))

\* What _distance does with the image it is given: raised (numpy.ones
\* refuses a negative dimension), or the distances it returns and the
\* checkerboard cells x, y it has used.
distance(a0, border, t, tag, undefined) ==
    LET ts == tissue_or_ones(t, a0)
        a == assign_where_zero(a0, ts, border)
        pad == initial_pad(tag, border)
    IN  IF tag # "visium"
        THEN [raised |-> FALSE, cells |-> Nothing,
              distances |-> assign_where_zero(
                  crop(distance_transform_edt(pad_with(a, pad), tag, undefined)),
                  ts, 0)]
        ELSE IF unmapped_rows(a) < 0
        THEN [raised |-> TRUE, cells |-> Nothing, distances |-> Nothing]
        ELSE IF unmapped_rows(a) = 0
        THEN [raised |-> FALSE, cells |-> <<>>, distances |-> zeros_like(a)]
        ELSE LET cells == nonzero(checkerboard(unmapped_rows(a), Cols(a)))
                 d == crop(distance_transform_edt(pad_with(unmapped(a), pad),
                                                  tag, undefined))
             IN  [raised |-> FALSE, cells |-> cells,
                  distances |-> assign_where_zero(
                      WriteBack(zeros(mapped_rows(d), Cols(d)), d, cells),
                      ts, 0)]

\* The values an undefined distance can have (squares).
Undefined == {0, 1}
\* distances -= ...: a pixel of the result is the pair of the squares
\* <<first, second>> and stands for sqrt(first) - sqrt(second).
difference(a, b) ==
    array([r \in 1..Rows(a) |-> row([c \in 1..Cols(a) |->
        <<a[r][c], b[r][c]>>])])
Positive(v) == v[1] > v[2]
Negative(v) == v[1] < v[2]

\* One call of _distance by Distance.minimum / Distance.maximum; the caller
\* keeps the first result and subtracts the second from it.
DistanceCall ==
    /\ IsDistance /\ pc = "call"
    /\ \E b \in {CallBorder(op, k)} :
       \E a \in {CallImage(op, k, input)} :
       \E g \in Undefined :
       \E res \in {distance(a, b, tissue, method, g)} :
         /\ border_value' = b
         /\ image' = a
         /\ IF res.raised
            THEN /\ pc' = "raised"
                 /\ UNCHANGED <<k, out, prev, points, distances>>
            ELSE /\ distances' = res.distances
                 /\ points' = res.cells
                 /\ IF k = 1
                    THEN /\ out' = res.distances /\ prev' = res.distances
                         /\ k' = 2 /\ pc' = "call"
                    ELSE /\ out' = difference(out, res.distances)
                         /\ k' = k /\ pc' = "done"
                         /\ UNCHANGED prev
    /\ UNCHANGED <<i, layers>>
    /\ TransformFrame

NextTransforms == LayerEnter \/ LayerErode \/ LayerReturn \/ DistanceCall

SpecTransforms == InitTransforms /\ [][NextTransforms]_vars

\* ------------------------------------------------ connectivity, by the graph
\* Two pixels are adjacent under a footprint when one is the other moved by
\* an offset of the footprint.
Adjacent(fp, p, q) ==
    /\ p # q
    /\ \/ <<q[1] - p[1], q[2] - p[2]>> \in fp
       \/ <<p[1] - q[1], p[2] - q[2]>> \in fp
Foreground(a) == {p \in Pixels(a) : a[p[1]][p[2]] # 0}
Grow(a, fp, S) ==
    S \cup {q \in Foreground(a) : \E p \in S : Adjacent(fp, p, q)}
\* The connected component of the foreground that holds the pixels S.
RECURSIVE Component(_, _, _)
Component(a, fp, S) ==
    LET T == Grow(a, fp, S) IN IF T = S THEN S ELSE Component(a, fp, T)
\* The number of growth steps after which S has become its component.
RECURSIVE StepsToFill(_, _, _, _)
StepsToFill(a, fp, S, n) ==
    LET T == Grow(a, fp, S) IN IF T = S THEN n ELSE StepsToFill(a, fp, T, n + 1)
\* Eccentricity of pixel p in its component; under element=None the larger
\* of the values of the two default neighbourhoods.
Eccentricity(a, el, p) ==
    IF ~el.given
    THEN Max2(StepsToFill(a, Cross, {p}, 0), StepsToFill(a, Full, {p}, 0))
    ELSE StepsToFill(a, el.fp, {p}, 0)
Isolated(a, el, p) ==
    Component(a, reconstruction_footprint(el), {p}) = {p}

\* ------------------------------------------------------- per-label reducers
\* The single-pixel seed of propagation_function.
seed_image(a, p) == [zeros_like(a) EXCEPT ![p[1]][p[2]] = 1]
\* The while loop of propagation_function for one seed: the value of i when
\* the loop exits, -1 when it never exits (the seed has stopped growing
\* before it equals the target).
RECURSIVE while_steps(_, _, _, _, _)
while_steps(d, target, a, el, n) ==
    IF d = target THEN n
    ELSE LET next == geodesic_dilation(d, a, el)
         IN  IF next = d THEN -1 ELSE while_steps(next, target, a, el, n + 1)
seed_steps(a, el, p) ==
    while_steps(seed_image(a, p),
                reconstruction_by_dilation(seed_image(a, p), a, el), a, el, 0)
\* The step count of every seed, 0 at a background pixel.
seed_steps_map(a, el) ==
    array([r \in 1..Rows(a) |-> row([c \in 1..Cols(a) |->
        IF a[r][c] # 0 THEN seed_steps(a, el, <<r, c>>) ELSE 0])])
\* propagation_function as its callers see it: whether it returns, the map
\* it returns, and the number of passes of its for loop.
propagation_function(a, el) ==
    CHOOSE result \in
        {IF \E p \in Pixels(a) : steps[p[1]][p[2]] < 0
         THEN [returns |-> FALSE, propagation |-> Nothing, passes |-> 0]
         ELSE [returns |-> TRUE, propagation |-> steps,
               passes |-> Cardinality(Foreground(a))] :
         steps \in {seed_steps_map(a, el)}} : TRUE
\* _count: numpy.unique_counts of the nonzero pixels, label -> count
count(a) ==
    [l \in unique(a) |-> Cardinality({p \in Pixels(a) : a[p[1]][p[2]] = l})]
\* scipy.ndimage.minimum / maximum of values over each label of index
\* (a variant: the minimum over the whole foreground, whatever the label)
label_minimum_global(values, labels, index) ==
    [l \in index |-> SetMin({values[p[1]][p[2]] : p \in Foreground(labels)})]
label_minimum(values, labels, index) ==
    [l \in index |-> SetMin({values[p[1]][p[2]] :
                               p \in {q \in Pixels(labels) : labels[q[1]][q[2]] = l}})]
\* (a variant: the maximum over the whole foreground, whatever the label)
label_maximum_global(values, labels, index) ==
    [l \in index |-> SetMax({values[p[1]][p[2]] : p \in Foreground(labels)})]
label_maximum(values, labels, index) ==
    [l \in index |-> SetMax({values[p[1]][p[2]] :
                               p \in {q \in Pixels(labels) : labels[q[1]][q[2]] = l}})]
\* numpy's float division n / (PI * d) of an element of an array: a zero
\* divisor raises nothing, it gives inf for a positive dividend and nan for
\* a zero one (and a RuntimeWarning).  A finite quotient is kept as the
\* exact pair of n and d.
true_divide_nan(n, d) ==
    [value |-> IF d # 0 THEN "finite" ELSE "nan", num |-> n, den |-> d]
true_divide(n, d) ==
    [value |-> IF d # 0 THEN "finite" ELSE IF n > 0 THEN "inf" ELSE "nan",
     num |-> n, den |-> d]

Reducers == {"Center.geodesic", "Shape.roundness", "Size.count"}
ReducerElements == {None, Array(Cross), Array(Full)}

InitReducers ==
    /\ op \in Reducers
    /\ pc = "call"
    /\ IF op = "Size.count" THEN element = None ELSE element \in ReducerElements
    /\ input \in WideImages
    /\ image = input
    /\ centers = Nothing /\ out = Nothing /\ propagation = Nothing
    /\ i = 0
    /\ points = Nothing
    /\ seed = Nothing /\ dilated = Nothing /\ reconstructed = Nothing
    /\ marker = Nothing /\ mask = Nothing /\ prev = Nothing /\ k = 0
    /\ NoTransform /\ NoOther

ReducerFrame == UNCHANGED <<op, input, image, element, points, seed, dilated,
                            reconstructed, marker, mask, prev, k, tvars,
                   ovars>>

\* Center.geodesic: the propagation map, the minimum of each label, the
\* pixels of the label that have it.  i counts the passes of the loops.
CenterGeodesic ==
    /\ op = "Center.geodesic" /\ pc = "call"
    /\ \E pf \in {propagation_function(image, element)} :
         IF ~pf.returns
         THEN pc' = "hangs" /\ UNCHANGED <<propagation, centers, i>>
         ELSE \E m \in {label_minimum(pf.propagation, image, unique(image))} :
                /\ propagation' = pf.propagation
                /\ centers' = [l \in DOMAIN m |->
                      {p \in Pixels(image) :
                          /\ image[p[1]][p[2]] = l
                          /\ pf.propagation[p[1]][p[2]] = m[l]}]
                /\ i' = pf.passes + Cardinality(DOMAIN m)
                /\ pc' = "done"
    /\ UNCHANGED out
    /\ ReducerFrame

\* Shape.roundness: 4 * size / (PI * maximum**2) of each label
ShapeRoundness ==
    /\ op = "Shape.roundness" /\ pc = "call"
    /\ \E pf \in {propagation_function(image, element)} :
         IF ~pf.returns
         THEN pc' = "hangs" /\ UNCHANGED <<propagation, out, i>>
         ELSE \E size \in {count(image)} :
              \E m \in {label_maximum(pf.propagation, image, DOMAIN size)} :
                /\ propagation' = pf.propagation
                /\ out' = [l \in DOMAIN size |->
                              true_divide(4 * size[l], m[l] * m[l])]
                /\ i' = pf.passes
                /\ pc' = "done"
    /\ UNCHANGED centers
    /\ ReducerFrame

\* Size.count: the number of pixels of each label
SizeCount ==
    /\ op = "Size.count" /\ pc = "call"
    /\ out' = count(image)
    /\ pc' = "done"
    /\ UNCHANGED <<propagation, centers, i>>
    /\ ReducerFrame

NextReducers == CenterGeodesic \/ ShapeRoundness \/ SizeCount

\* The reducers together with Center.ultimate.
InitFeatures == InitReducers \/ InitUltimate
NextFeatures == NextReducers \/ NextUltimate
SpecFeatures == InitFeatures /\ [][NextFeatures]_vars

\* ------------------------------------------------------------------ claims
InPropagation == op = "propagation_function"
InUltimate == op = "ultimate"

\* C1: propagation_function terminates: there is no reachable state in which
\* the while loop is stuck, that is, in which the accumulated seed differs
\* from the reconstruction target and one more geodesic_dilation leaves it
\* as it is.
C1_NoStuckLoop ==
    ~(/\ InPropagation /\ pc = "while"
      /\ dilated # reconstructed
      /\ geodesic_dilation(dilated, image, element) = dilated)

\* C2: the value written at a foreground pixel p is the number of
\* geodesic-dilation steps after which a marker seeded at p is p's whole
\* component; the step counter never exceeds the eccentricity of p, the
\* value is 0 exactly for an isolated pixel, background pixels hold 0.
C2_PropagationDepth ==
    InPropagation =>
        /\ pc = "while" => i <= Eccentricity(image, element, seed)
        /\ \A p \in Pixels(image) :
             /\ image[p[1]][p[2]] = 0 => propagation[p[1]][p[2]] = 0
             /\ propagation[p[1]][p[2]] >= 0
             /\ (pc = "done" /\ image[p[1]][p[2]] # 0) =>
                  /\ propagation[p[1]][p[2]] <= Eccentricity(image, element, p)
                  /\ propagation[p[1]][p[2]] =
                        StepsToFill(image, default_footprint(element), {p}, 0)
                  /\ propagation[p[1]][p[2]] = 0 <=> Isolated(image, element, p)

\* The filled 3x3 square of one label, handled with the full 3x3 element.
FilledSquare(a) ==
    /\ Rows(a) = 3 /\ Cols(a) = 3
    /\ \A p \in Pixels(a) : a[p[1]][p[2]] = a[1][1] /\ a[1][1] # 0
SquareDone ==
    /\ InPropagation /\ pc = "done"
    /\ FilledSquare(image) /\ element = Array(Full)
OffCentre == ((1..3) \X (1..3)) \ {<<2, 2>>}

C4_NoStuckUltimate ==
    ~(/\ InUltimate /\ pc = "while"
      /\ any(image)
      /\ erosion(image, element) = image)

\* C5: every coordinate stored under label l carries label l in the image
\* the caller passed in.
C5_Attribution ==
    InUltimate =>
        \A l \in DOMAIN centers : \A p \in centers[l] : input[p[1]][p[2]] = l

\* Pointwise order of two arrays of one shape.
Leq(a, b) == \A p \in Pixels(a) : a[p[1]][p[2]] <= b[p[1]][p[2]]
InCall(name) == op = name /\ pc \in {"returned", "stepped"}

\* C6: a reconstruction that returns keeps the bounds: marker <= result <=
\* mask for reconstruction_by_dilation, marker >= result >= mask for
\* reconstruction_by_erosion.
C6_ReconstructionBounds ==
    /\ (op = "reconstruction_by_dilation" /\ pc = "returned") =>
          Leq(marker, out) /\ Leq(out, mask)
    /\ (op = "reconstruction_by_erosion" /\ pc = "returned") =>
          Leq(out, marker) /\ Leq(mask, out)

C6_Witness ==
    /\ op = "reconstruction_by_dilation" /\ pc = "returned"
    /\ out # marker /\ out # mask

\* C7: the result of reconstruction_by_dilation is unchanged by one more
\* geodesic_dilation step with the same mask and element.
C7_FixedPoint ==
    (op = "reconstruction_by_dilation" /\ pc = "stepped") => out = prev

\* The largest eccentricity of a foreground pixel of a in its component.
Diameter(a, el) ==
    SetMax({0} \cup {StepsToFill(a, default_footprint(el), {p}, 0) :
                       p \in Foreground(a)})
\* The background of a, as a binary image.
Background(a) ==
    array([r \in 1..Rows(a) |-> row([c \in 1..Cols(a) |->
        IF a[r][c] = 0 THEN 1 ELSE 0])])
\* All foreground pixels of a carry one value.
Flat(a) == \A p, q \in Foreground(a) : a[p[1]][p[2]] = a[q[1]][q[2]]

Monotone ==
    /\ (InCall("geodesic_dilation") /\ Leq(marker, mask)) =>
          Leq(prev, out) /\ Leq(out, mask)
    /\ (InCall("geodesic_erosion") /\ Leq(mask, marker)) =>
          Leq(out, prev) /\ Leq(mask, out)

\* C8 as stated: from marker <= mask every geodesic_dilation iterate is >=
\* the one before and <= mask (dually for erosion), and the iterate changes
\* in at most as many steps as the diameter of the largest connected region
\* (of the mask; for erosion, of the background of the mask).
C8_ConvergesWithinDiameter ==
    /\ Monotone
    /\ (InCall("geodesic_dilation") /\ Leq(marker, mask) /\ out # prev) =>
          k <= Diameter(mask, element)
    /\ (InCall("geodesic_erosion") /\ Leq(mask, marker) /\ out # prev) =>
          k <= Diameter(Background(mask), element)

\* C8 as amended: the same, the step bound of the dilation only for a mask
\* whose foreground pixels all carry one value, that of the erosion only
\* for a binary marker over a binary mask.
C8_ConvergesWithinDiameterFlat ==
    /\ Monotone
    /\ (InCall("geodesic_dilation") /\ Leq(marker, mask) /\ out # prev
        /\ Flat(mask)) =>
          k <= Diameter(mask, element)
    /\ (InCall("geodesic_erosion") /\ Leq(mask, marker) /\ out # prev
        /\ Binary(mask) /\ Binary(marker)) =>
          k <= Diameter(Background(mask), element)

C8_Witness ==
    /\ InCall("geodesic_dilation") /\ Leq(marker, mask) /\ Flat(mask)
    /\ out # prev /\ k = 3 /\ k = Diameter(mask, element)

\* C9 as stated: for every marker and mask, marker <= geodesic_dilation <=
\* mask and marker >= geodesic_erosion >= mask.
C9_GeodesicBound ==
    /\ InCall("geodesic_dilation") => Leq(prev, out) /\ Leq(out, mask)
    /\ InCall("geodesic_erosion") => Leq(out, prev) /\ Leq(mask, out)

\* C9 as amended: geodesic_dilation <= mask and geodesic_erosion >= mask for
\* every marker and mask; marker <= geodesic_dilation when marker <= mask,
\* and marker >= geodesic_erosion when marker >= mask.
C9_GeodesicBoundOrdered ==
    /\ InCall("geodesic_dilation") =>
          /\ Leq(out, mask)
          /\ Leq(prev, mask) => Leq(prev, out)
    /\ InCall("geodesic_erosion") =>
          /\ Leq(mask, out)
          /\ Leq(mask, prev) => Leq(out, prev)

C9_Witness ==
    /\ InCall("geodesic_dilation") /\ k = 1
    /\ ~Leq(marker, mask) /\ ~Leq(mask, marker)
    /\ out # mask /\ ~Leq(marker, out)

\* C10: geodesic_dilation is, pixel by pixel, the smaller of the mask and
\* dilation(marker, element); geodesic_erosion is the larger of the mask and
\* erosion(marker, element).
C10_PointwiseClamp ==
    /\ InCall("geodesic_dilation") =>
          \E d \in {dilation(prev, element)} : \A p \in Pixels(out) :
              /\ out[p[1]][p[2]] <= mask[p[1]][p[2]]
              /\ out[p[1]][p[2]] <= d[p[1]][p[2]]
              /\ out[p[1]][p[2]] \in {mask[p[1]][p[2]], d[p[1]][p[2]]}
    /\ InCall("geodesic_erosion") =>
          \E e \in {erosion(prev, element)} : \A p \in Pixels(out) :
              /\ out[p[1]][p[2]] >= mask[p[1]][p[2]]
              /\ out[p[1]][p[2]] >= e[p[1]][p[2]]
              /\ out[p[1]][p[2]] \in {mask[p[1]][p[2]], e[p[1]][p[2]]}

C10_Witness ==
    /\ InCall("geodesic_dilation")
    /\ out # mask /\ out # dilation(prev, element) /\ out # prev

\* ---------------------------------------------------- claims on transforms
\* C11: the erosion loop of _layer terminates: there is no reachable state
\* of the loop in which the working image has a foreground pixel and one
\* more binary erosion leaves it as it is.
C11_LayerLoopEnds ==
    ~(/\ IsLayer /\ pc = "while"
      /\ any(image)
      /\ binary_erosion(image, element, border_value) = image)

\* The call of _layer that has just returned, and the image it worked on.
LayerReturned == IsLayer /\ ((pc = "call" /\ k = 2) \/ pc = "done")
ReturnedCall == IF pc = "done" THEN 2 ELSE 1
Tissue == tissue_or_ones(tissue, input)
Entry ==
    assign_where_zero(CallImage(op, ReturnedCall, input), Tissue,
                      CallBorder(op, ReturnedCall))
\* The number of successive erosions of a after which p is still foreground.
RECURSIVE ErosionsSurvived(_, _, _, _)
ErosionsSurvived(a, el, border, p) ==
    LET e == binary_erosion(a, el, border)
    IN  IF e[p[1]][p[2]] = 0 \/ e = a THEN 0
        ELSE 1 + ErosionsSurvived(e, el, border, p)

\* C12 as stated: the layer count of a tissue-true pixel is the number of
\* erosions the pixel survives; a pixel that is background on entry gets 0.
C12_LayerIsSurvived ==
    LayerReturned =>
        \A p \in Pixels(input) : Tissue[p[1]][p[2]] # 0 =>
            layers[p[1]][p[2]] =
                IF Entry[p[1]][p[2]] = 0 THEN 0
                ELSE ErosionsSurvived(Entry, element,
                                      CallBorder(op, ReturnedCall), p)

\* C12 as amended: the layer count of a tissue-true foreground pixel is one
\* more than the number of erosions the pixel survives, that is, the number
\* of the erosion that removes it; a pixel that is background on entry gets
\* 0.
C12_LayerIsRemoval ==
    LayerReturned =>
        \A p \in Pixels(input) : Tissue[p[1]][p[2]] # 0 =>
            layers[p[1]][p[2]] =
                IF Entry[p[1]][p[2]] = 0 THEN 0
                ELSE 1 + ErosionsSurvived(Entry, element,
                                          CallBorder(op, ReturnedCall), p)

C12_Witness ==
    /\ LayerReturned
    /\ \E p, q \in Pixels(input) :
         /\ Tissue[p[1]][p[2]] # 0 /\ layers[p[1]][p[2]] = 2
         /\ Tissue[q[1]][q[2]] # 0 /\ layers[q[1]][q[2]] = 0

\* C13: at every tissue-true pixel Layer.minimum is > 0 on background and
\* < 0 on foreground pixels, Layer.maximum is > 0 on foreground and < 0 on
\* background pixels.
C13_LayerSigns ==
    (IsLayer /\ pc = "done") =>
        \A p \in Pixels(input) : Tissue[p[1]][p[2]] # 0 =>
            IF (op = "Layer.minimum") = (input[p[1]][p[2]] = 0)
            THEN out[p[1]][p[2]] > 0
            ELSE out[p[1]][p[2]] < 0

\* The image has a tissue-true foreground and a tissue-true background
\* pixel, so that every distance transform has a zero pixel to measure to.
HasBothSides ==
    /\ \E p \in Pixels(input) : Tissue[p[1]][p[2]] # 0 /\ input[p[1]][p[2]] # 0
    /\ \E p \in Pixels(input) : Tissue[p[1]][p[2]] # 0 /\ input[p[1]][p[2]] = 0

\* C14: at every tissue-true pixel Distance.minimum is positive on
\* background and negative on foreground pixels, and Distance.maximum has
\* the opposite signs (here without a platform tag, on images that have
\* both sides).
C14_DistanceSigns ==
    (IsDistance /\ pc = "done" /\ method = "none" /\ HasBothSides) =>
        \A p \in Pixels(input) : Tissue[p[1]][p[2]] # 0 =>
            IF (op = "Distance.minimum") = (input[p[1]][p[2]] = 0)
            THEN Positive(out[p[1]][p[2]])
            ELSE Negative(out[p[1]][p[2]])

\* C15: in the output of each of the four transforms a tissue-false pixel
\* is 0, whatever the image, the border value and the platform tag.
C15_TissueMasked ==
    (op \in Transforms /\ pc = "done") =>
        \A p \in Pixels(input) : Tissue[p[1]][p[2]] = 0 =>
            IF IsLayer THEN out[p[1]][p[2]] = 0
            ELSE out[p[1]][p[2]] = <<0, 0>>

C15_Witness ==
    /\ IsDistance /\ pc = "done" /\ method = "visium"
    /\ \E p, q \in Pixels(input) :
         /\ Tissue[p[1]][p[2]] = 0 /\ input[p[1]][p[2]] # 0
         /\ Tissue[q[1]][q[2]] # 0 /\ out[q[1]][q[2]] # <<0, 0>>

\* The coordinate of the image a checkerboard cell is read from and written
\* back to, and the cells of the call that has just returned.
Target(cell) == <<forward(cell), cell[2]>>
Remapped ==
    /\ IsDistance /\ method = "visium" /\ unmapped_rows(input) >= 1
    /\ (pc = "call" /\ k = 2) \/ pc = "done"
Writes(p) == {n \in 1..Len(points) : Target(points[n]) = p}

\* C16 as stated: the forward mapping is injective on the checkerboard
\* cells, and every coordinate of the R x C image is written exactly once.
C16_RemapCoversImage ==
    Remapped =>
        /\ \A m, n \in 1..Len(points) :
             Target(points[m]) = Target(points[n]) => m = n
        /\ \A p \in Pixels(input) : Cardinality(Writes(p)) = 1

\* C16 as amended: the forward mapping is injective on the checkerboard
\* cells, every cell is written to a coordinate of the R x C image, no
\* coordinate is written twice, and a coordinate that is not the image of a
\* cell is never written: it keeps the distance 0.
C16_RemapInjective ==
    Remapped =>
        /\ \A m, n \in 1..Len(points) :
             Target(points[m]) = Target(points[n]) => m = n
        /\ \A n \in 1..Len(points) : Target(points[n]) \in Pixels(input)
        /\ \A p \in Pixels(input) :
             /\ Cardinality(Writes(p)) <= 1
             /\ Writes(p) = {} => distances[p[1]][p[2]] = 0

C16_Witness ==
    /\ Remapped /\ pc = "done" /\ Len(points) >= 2
    /\ \E p, q \in Pixels(input) :
         /\ Writes(p) = {}
         /\ Writes(q) # {} /\ out[q[1]][q[2]] # <<0, 0>>

\* C19: a platform tag that is neither none nor visium is reported as an
\* error: Distance.minimum / Distance.maximum return no result for it.
C19_UnsupportedTagRaises ==
    (IsDistance /\ method \notin {"none", "visium"}) =>
        /\ pc # "done"
        /\ ~(pc = "call" /\ k = 2)

\* C17: with element=None the adjacency that grows the seed is the
\* adjacency that defines the reconstruction target: the target that
\* propagation_function got from reconstruction_by_dilation is the
\* reconstruction of the seed under the default neighbourhood of its
\* geodesic_dilation steps.
C17_OneDefaultNeighbourhood ==
    (InPropagation /\ pc = "while" /\ ~element.given) =>
        reconstructed =
            ReconstructionLoop([zeros_like(image) EXCEPT ![seed[1]][seed[2]] = 1],
                               image, default_footprint(element), "dilation")

\* C18: geodesic_erosion and geodesic_dilation raise whenever marker and
\* mask do not have the same shape; no result is returned then.
C18_MismatchRaises ==
    (/\ op \in {"geodesic_dilation", "geodesic_erosion"}
     /\ marker # Nothing /\ mask # Nothing
     /\ Rows(marker) # Rows(mask) \/ Cols(marker) # Cols(mask)) =>
        pc = "raised"

\* C20: for an image with no foreground pixel Center.geodesic,
\* Center.ultimate, Shape.roundness and Size.count return the empty mapping
\* and raise nothing, and no loop body runs.
C20_EmptyImageEmptyMapping ==
    /\ (op \in Reducers /\ ~any(input)) =>
          /\ pc \in {"call", "done"}
          /\ pc = "call" => ENABLED NextReducers
          /\ pc = "done" =>
                /\ (IF op = "Center.geodesic" THEN centers ELSE out) = <<>>
                /\ i = 0
    /\ (InUltimate /\ ~any(input)) =>
          /\ pc \in {"while", "done"}
          /\ pc = "while" => ENABLED UltimateReturn
          /\ ~ENABLED UltimateStep
          /\ centers = <<>>

C20_Witness ==
    /\ op = "Shape.roundness" /\ pc = "done"
    /\ ~any(input) /\ Rows(input) * Cols(input) >= 2
    /\ out = <<>>

\* The pixels of the caller's image that carry label l.
Carrying(l) == {p \in Pixels(input) : input[p[1]][p[2]] = l}
RoundnessReturned == op = "Shape.roundness" /\ pc = "done"
\* The largest value of the propagation map over the pixels of label l.
MaxPropagation(l) == SetMax({propagation[p[1]][p[2]] : p \in Carrying(l)})

\* C21: Shape.roundness returns, for every label of the image, 4 * area /
\* (pi * max_propagation^2) with area the number of pixels carrying the
\* label and max_propagation the largest value of the propagation map over
\* exactly those pixels (the map holding at each foreground pixel the number
\* of growth steps from it to its whole component); the keys of the mapping
\* are exactly the labels of the image.
C21_Roundness ==
    RoundnessReturned =>
        /\ DOMAIN out = {input[p[1]][p[2]] : p \in Foreground(input)}
        /\ \A p \in Foreground(input) :
              propagation[p[1]][p[2]] =
                  StepsToFill(input, default_footprint(element), {p}, 0)
        /\ \A l \in DOMAIN out :
              /\ out[l].num = 4 * Cardinality(Carrying(l))
              /\ out[l].den = MaxPropagation(l) * MaxPropagation(l)

\* Two labels of one component whose largest propagation values differ.
C21_Witness ==
    /\ RoundnessReturned
    /\ \E l1, l2 \in DOMAIN out :
          /\ out[l1].den > out[l2].den /\ out[l2].den > 0
          /\ out[l1].num # out[l2].num

\* A label all of whose pixels have propagation value 0.
Degenerate(l) == MaxPropagation(l) = 0

\* C22 as stated: for a label whose maximum propagation value is 0 the
\* division by zero raises nothing and the mapping holds NaN for the label;
\* the other labels have their finite roundness.
C22_DegenerateIsNaN ==
    RoundnessReturned =>
        \A l \in DOMAIN out :
            IF Degenerate(l) THEN out[l].value = "nan"
            ELSE out[l].value = "finite"

\* C22 as amended: for a label whose maximum propagation value is 0 the
\* division by zero raises nothing and the mapping holds +inf for the label
\* (the dividend 4 * area is positive); the other labels of the call have
\* their finite roundness 4 * area / (pi * max_propagation^2).
C22_DegenerateIsInf ==
    /\ (op = "Shape.roundness" /\ pc # "call") => pc \in {"done", "hangs"}
    /\ RoundnessReturned =>
          \A l \in DOMAIN out :
              /\ out[l].num = 4 * Cardinality(Carrying(l)) /\ out[l].num > 0
              /\ IF Degenerate(l)
                 THEN out[l].value = "inf" /\ out[l].den = 0
                 ELSE /\ out[l].value = "finite"
                      /\ out[l].den = MaxPropagation(l) * MaxPropagation(l)

\* A label of one isolated pixel beside a label of two touching pixels.
C22_Witness ==
    /\ RoundnessReturned
    /\ \E l1, l2 \in DOMAIN out :
          /\ Degenerate(l1) /\ out[l1].value = "inf"
          /\ out[l2].value = "finite" /\ out[l2].num = 8 /\ out[l2].den = 1

\* ---------------------------------------------------- the arrays as objects
\* A numpy array is an object: a name refers to one, and an in-place write
\* changes it for every name that refers to it.  heap gives the content of
\* each object (Nothing for one that is not there; the object "tissue" holds
\* Nothing when the caller passed tissue=None), names the object each name
\* of the running function refers to, results what the calls made so far
\* gave back.  The caller holds the objects "image", "tissue" and "element",
\* calls one of the core operations, and calls it once more with the same
\* objects.  unspecified is what this build of the library answers for a
\* distance transform of an input without background.
Objects == {"image", "tissue", "element", "compared", "inverted", "result",
            "subtrahend"}
Caller == [image |-> "image", tissue |-> "tissue", element |-> "element"]
CoreOperations == Transforms \cup {"propagation_function", "ultimate"}

\* (a variant: the expression overwrites its operand)
operand_of(expression, operand) == operand
\* image != 0, ~image: numpy builds a new array for the value of the
\* expression, the operand is left as it is
value_of(expression, operand) == expression

\* _layer as a function: whether its loop ends, the array it was handed as
\* the in-place writes leave it, and the layers it returns.
RECURSIVE layer_while(_, _, _, _)
layer_while(a, ls, el, border) ==
    IF ~any(a) THEN [returns |-> TRUE, image |-> a, layers |-> ls]
    ELSE CHOOSE res \in
           {IF eroded = a
            THEN [returns |-> FALSE, image |-> a, layers |-> ls]
            ELSE layer_while(eroded, add(ls, eroded), el, border) :
            eroded \in {binary_erosion(a, el, border)}} : TRUE
layer(a0, el, border, t) ==
    CHOOSE res \in
      {[returns |-> w.returns, image |-> w.image,
        layers |-> assign_where_zero(w.layers, tissue_or_ones(t, a0), 0)] :
       w \in {layer_while(a, a, el, border) :
              a \in {assign_where_zero(a0, tissue_or_ones(t, a0), border)}}} :
      TRUE

\* Center.ultimate as a function: how the call ends and the centers.
RECURSIVE ultimate_while(_, _, _)
ultimate_while(a, cs, el) ==
    IF ~any(a) THEN [outcome |-> "returned", value |-> cs]
    ELSE CHOOSE res \in
      {IF reconstruction_raises(eroded, a, "dilation")
       THEN [outcome |-> "raised", value |-> Nothing]
       ELSE IF eroded = a
       THEN [outcome |-> "hangs", value |-> Nothing]
       ELSE LET rec == reconstruction_by_dilation(eroded, a, el)
                P == Foreground(subtract(a, rec))
            IN  IF \E p \in P : a[p[1]][p[2]] \notin DOMAIN cs
                THEN [outcome |-> "raised", value |-> Nothing]
                ELSE ultimate_while(eroded,
                         [l \in DOMAIN cs |->
                             cs[l] \cup {p \in P : a[p[1]][p[2]] = l}], el) :
       eroded \in {erosion(a, el)}} : TRUE
ultimate(a, el) == ultimate_while(a, [l \in unique(a) |-> {}], el)

\* Labeled images small enough to come with every tissue mask.
MaskedImages ==
    UNION {Arrays(s, MaxLabel) :
           s \in {t \in Shapes(MaxTissueArea) : t[1] <= t[2]}}

InitStateless ==
    /\ op \in CoreOperations
    /\ pc = "call"
    /\ k = 1
    /\ IF IsDistance THEN element = None /\ method \in Tags
       ELSE element \in LayerElements /\ method = "none"
    /\ input \in MaskedImages
    /\ IF op \in Transforms THEN tissue \in TissueMasks(input)
       ELSE tissue = Nothing
    /\ IF IsDistance THEN unspecified \in Undefined ELSE unspecified = 0
    /\ heap = [o \in Objects |->
                  CASE o = "image" -> input
                    [] o = "tissue" -> tissue
                    [] o = "element" -> element
                    [] OTHER -> Nothing]
    /\ names = Caller
    /\ results = <<>>
    /\ image = Nothing /\ border_value = 0
    /\ layers = Nothing /\ distances = Nothing
    /\ out = Nothing /\ prev = Nothing /\ i = 0
    /\ points = Nothing /\ propagation = Nothing /\ centers = Nothing
    /\ seed = Nothing /\ dilated = Nothing /\ reconstructed = Nothing
    /\ marker = Nothing /\ mask = Nothing
    /\ workers = Nothing /\ kwargs = Nothing
    /\ data = Nothing /\ G = {} /\ calls = Nothing /\ arguments = Nothing

StatelessFrame ==
    UNCHANGED <<op, input, image, element, points, seed, dilated,
                reconstructed, i, propagation, centers, marker, mask, out,
                prev, tvars, unspecified, workers, kwargs, data, G, calls,
                arguments>>

Returned(value) == [outcome |-> "returned", value |-> value]
Raised == [outcome |-> "raised", value |-> Nothing]

\* image = image != 0 (Layer.minimum / maximum, Distance.minimum / maximum)
Compare ==
    /\ op \in Transforms /\ pc = "call"
    /\ \E target \in {value_of("compared", names.image)} :
         /\ heap' = [heap EXCEPT ![target] = not_equal(heap[names.image])]
         /\ names' = [names EXCEPT !.image = target]
    /\ pc' = "first"
    /\ UNCHANGED <<k, results>>
    /\ StatelessFrame

\* One call of _layer or _distance on the object arg that holds a: the
\* array handed over is written in place, the result is a new array.
Callee(arg, a, border, result, next) ==
    IF IsLayer
    THEN \E res \in {layer(a, heap[names.element], border,
                           heap[names.tissue])} :
           IF res.returns
           THEN /\ heap' = [heap EXCEPT ![arg] = res.image,
                                        ![result] = res.layers]
                /\ pc' = next
                /\ UNCHANGED results
           ELSE /\ heap' = [heap EXCEPT ![arg] = res.image]
                /\ pc' = "hangs"
                /\ UNCHANGED results
    ELSE \E res \in {distance(a, border, heap[names.tissue], method,
                              unspecified)} :
         \E written \in {assign_where_zero(
                            a, tissue_or_ones(heap[names.tissue], a), border)} :
           IF res.raised
           THEN /\ heap' = [heap EXCEPT ![arg] = written]
                /\ results' = Append(results, Raised)
                /\ pc' = "over"
           ELSE /\ heap' = [heap EXCEPT ![arg] = written,
                                        ![result] = res.distances]
                /\ pc' = next
                /\ UNCHANGED results

\* _layer(~image, ...) / _distance(~image, ...)
FirstCall ==
    /\ op \in Transforms /\ pc = "first"
    /\ \E arg \in {value_of("inverted", names.image)} :
         Callee(arg, invert(heap[names.image]), CallBorder(op, 1),
                "result", "second")
    /\ UNCHANGED <<k, names>>
    /\ StatelessFrame

\* _layer(image, ...) / _distance(image, ...)
SecondCall ==
    /\ op \in Transforms /\ pc = "second"
    /\ Callee(names.image, heap[names.image], CallBorder(op, 2),
              "subtrahend", "subtract")
    /\ UNCHANGED <<k, names>>
    /\ StatelessFrame

\* layers -= ... / distances -= ..., in place, and the return
SubtractReturn ==
    /\ op \in Transforms /\ pc = "subtract"
    /\ \E res \in {IF IsLayer
                   THEN subtract(heap["result"], heap["subtrahend"])
                   ELSE difference(heap["result"], heap["subtrahend"])} :
         /\ heap' = [heap EXCEPT !["result"] = res]
         /\ results' = Append(results, Returned(res))
    /\ pc' = "over"
    /\ UNCHANGED <<k, names>>
    /\ StatelessFrame

\* propagation_function: every array it writes (propagation, dilated) is
\* one it has built, the image is read
PropagationCall ==
    /\ op = "propagation_function" /\ pc = "call"
    /\ \E pf \in {propagation_function(heap[names.image],
                                       heap[names.element])} :
         IF pf.returns
         THEN /\ heap' = [heap EXCEPT !["result"] = pf.propagation]
              /\ results' = Append(results, Returned(pf.propagation))
              /\ pc' = "over"
         ELSE pc' = "hangs" /\ UNCHANGED <<heap, results>>
    /\ UNCHANGED <<k, names>>
    /\ StatelessFrame

\* Center.ultimate: image = eroded binds the name again, no array is
\* written
UltimateCall ==
    /\ op = "ultimate" /\ pc = "call"
    /\ \E res \in {ultimate(heap[names.image], heap[names.element])} :
         IF res.outcome = "hangs"
         THEN pc' = "hangs" /\ UNCHANGED <<heap, results>>
         ELSE /\ heap' = [heap EXCEPT !["result"] = res.value]
              /\ results' = Append(results, res)
              /\ pc' = "over"
    /\ UNCHANGED <<k, names>>
    /\ StatelessFrame

\* The caller calls again with the objects it holds; the arrays the first
\* call built are gone.
CallAgain ==
    /\ pc = "over" /\ k = 1
    /\ k' = 2
    /\ names' = Caller
    /\ heap' = [o \in Objects |->
                   IF o \in {"image", "tissue", "element"} THEN heap[o]
                   ELSE Nothing]
    /\ pc' = "call"
    /\ UNCHANGED results
    /\ StatelessFrame

NextStateless ==
    \/ Compare \/ FirstCall \/ SecondCall \/ SubtractReturn
    \/ PropagationCall \/ UltimateCall \/ CallAgain

SpecStateless == InitStateless /\ [][NextStateless]_vars

\* C23: the core operations leave the arrays the caller holds (image,
\* tissue mask, structuring element) as they were passed, and a second call
\* with the same arguments ends as the first one did, with an equal result.
C23_Stateless ==
    /\ heap["image"] = input
    /\ heap["tissue"] = tissue
    /\ heap["element"] = element
    /\ Len(results) = 2 => results[1] = results[2]

\* Layer.minimum / maximum called twice on an image with foreground: the
\* private copy was eroded away in place, the caller's image was not.
C23_Witness ==
    /\ IsLayer /\ pc = "over" /\ Len(results) = 2
    /\ results[2].outcome = "returned"
    /\ any(input) /\ ~any(heap["compared"])
    /\ tissue # Nothing /\ \E p \in Pixels(tissue) : tissue[p[1]][p[2]] = 0

\* ------------------------------------------- the seeds handled side by side
\* The body of the for loop of propagation_function, one worker per seed,
\* taken in any order and interleaved in any way: a worker has its own
\* dilated, reconstructed and i, all of them read image and write
\* propagation.
\* (a variant: propagation[x] = i, the whole row of the seed)
written_row(a, p, value) ==
    [a EXCEPT ![p[1]] = row([c \in 1..Cols(a) |-> value])]
\* propagation[x, y] = i
written(a, p, value) == [a EXCEPT ![p[1]][p[2]] = value]

\* Labeled images of at most two pixels, binary images of the other small
\* shapes.
SeedImages ==
    UNION {Arrays(s, IF s[1] * s[2] <= 2 THEN MaxLabel ELSE 1) :
           s \in {t \in Shapes(MaxTissueArea) : t[1] <= t[2]}}

InitSeeds ==
    /\ op = "propagation_function"
    /\ pc = "for"
    /\ element \in Elements
    /\ input \in SeedImages
    /\ image = input
    /\ propagation = zeros_like(image)
    /\ workers = [p \in Foreground(image) |->
                     [pc |-> "for", dilated |-> Nothing,
                      reconstructed |-> Nothing, i |-> 0]]
    /\ points = Nothing
    /\ seed = Nothing /\ dilated = Nothing /\ reconstructed = Nothing
    /\ i = 0
    /\ centers = Nothing /\ marker = Nothing /\ mask = Nothing
    /\ out = Nothing /\ prev = Nothing /\ k = 0
    /\ NoTransform
    /\ heap = Nothing /\ names = Nothing /\ results = Nothing
    /\ unspecified = 0 /\ kwargs = Nothing
    /\ data = Nothing /\ G = {} /\ calls = Nothing /\ arguments = Nothing

SeedsFrame ==
    UNCHANGED <<op, input, image, element, points, seed, dilated,
                reconstructed, i, centers, marker, mask, out, prev, k, tvars,
                heap, names, results, unspecified, kwargs, data, G, calls,
                arguments>>

\* dilated = zeros_like(image); dilated[x, y] = 1; reconstructed = ...; i = 0
SeedStart(p) ==
    /\ pc = "for" /\ workers[p].pc = "for"
    /\ \E d \in {seed_image(image, p)} :
         workers' = [workers EXCEPT ![p] =
            [pc |-> "while", dilated |-> d,
             reconstructed |-> reconstruction_by_dilation(d, image, element),
             i |-> 0]]
    /\ UNCHANGED <<pc, propagation>>
    /\ SeedsFrame

\* one pass of the while loop of seed p
SeedStep(p) ==
    /\ pc = "for" /\ workers[p].pc = "while"
    /\ workers[p].dilated # workers[p].reconstructed
    /\ workers[p].i < MaxSteps
    /\ workers' = [workers EXCEPT
          ![p].dilated = geodesic_dilation(workers[p].dilated, image, element),
          ![p].i = workers[p].i + 1]
    /\ UNCHANGED <<pc, propagation>>
    /\ SeedsFrame

\* the loop of seed p is over: propagation[x, y] = i
SeedWrite(p) ==
    /\ pc = "for" /\ workers[p].pc = "while"
    /\ workers[p].dilated = workers[p].reconstructed
    /\ propagation' = written(propagation, p, workers[p].i)
    /\ workers' = [workers EXCEPT ![p].pc = "done"]
    /\ UNCHANGED pc
    /\ SeedsFrame

\* every seed is done: return propagation
SeedsReturn ==
    /\ pc = "for"
    /\ \A p \in DOMAIN workers : workers[p].pc = "done"
    /\ pc' = "done"
    /\ UNCHANGED <<workers, propagation>>
    /\ SeedsFrame

NextSeeds ==
    \/ \E p \in DOMAIN workers : SeedStart(p) \/ SeedStep(p) \/ SeedWrite(p)
    \/ SeedsReturn

SpecSeeds == InitSeeds /\ [][NextSeeds]_vars

\* C24: in whatever order and interleaving the seeds are handled, the image
\* is only read, the only cell of the map that holds a written value is the
\* cell of a seed that is done, its value is the step count of that seed
\* alone, and the map returned is the one of the loop in numpy.where order.
C24_OrderIndependent ==
    /\ image = input
    /\ \A p \in Pixels(image) :
          propagation[p[1]][p[2]] =
              IF p \in DOMAIN workers /\ workers[p].pc = "done"
              THEN seed_steps(image, element, p)
              ELSE 0
    /\ pc = "done" =>
          propagation = propagation_function(input, element).propagation

\* Two seeds in the middle of their loops while a third has written its
\* value.
C24_Witness ==
    \E p, q, r \in DOMAIN workers :
        /\ p # q
        /\ workers[p].pc = "while" /\ workers[p].i >= 1
        /\ workers[q].pc = "while" /\ workers[q].i >= 1
        /\ workers[r].pc = "done" /\ propagation[r[1]][r[2]] >= 1

\* ------------------------------------------- numpy.pad and its callback
\* numpy.pad(image, 1, _padding_func, pad=pad), one invocation of the
\* callback per step.  numpy.pad puts the image into a larger array of
\* zeros and hands the callback every vector of it along axis 0 (the
\* columns, left to right), then every vector along axis 1 (the rows, top
\* to bottom); the callback writes the first and the last element of the
\* vector and flips pad.  image is the array handed to numpy.pad (the
\* remapped grid on the visium path), out the padded array, i the number
\* of invocations made, prev the pad the latest invocation started with.
pad_simple(a) ==
    array([r \in 1..Rows(a) + 2 |-> row([c \in 1..Cols(a) + 2 |->
        IF r \in 2..Rows(a) + 1 /\ c \in 2..Cols(a) + 1
        THEN a[r - 1][c - 1] ELSE 0])])
Invocations(a) == Cols(a) + 2 + Rows(a) + 2
\* The coordinates of vector[:1] and vector[-1:] of the n-th invocation.
Before(a, n) ==
    IF n <= Cols(a) + 2 THEN <<1, n>> ELSE <<n - (Cols(a) + 2), 1>>
After(a, n) ==
    IF n <= Cols(a) + 2 THEN <<Rows(a) + 2, n>>
    ELSE <<n - (Cols(a) + 2), Cols(a) + 2>>

PaddedImages == UNION {Arrays(s, 1) : s \in Shapes(MaxLabArea)}

InitPadding ==
    /\ op = "_distance"
    /\ pc = "pad"
    /\ method \in {"none", "visium"}
    /\ border_value \in {0, 1}
    /\ element = None
    /\ input \in PaddedImages
    /\ method = "visium" => unmapped_rows(input) >= 1
    /\ image = IF method = "visium" THEN unmapped(input) ELSE input
    /\ kwargs = [pad |-> initial_pad(method, border_value)]
    /\ out = pad_simple(image)
    /\ i = 0
    /\ prev = Nothing
    /\ tissue = Nothing /\ layers = Nothing /\ distances = Nothing
    /\ points = Nothing /\ propagation = Nothing /\ centers = Nothing
    /\ seed = Nothing /\ dilated = Nothing /\ reconstructed = Nothing
    /\ marker = Nothing /\ mask = Nothing /\ k = 0
    /\ heap = Nothing /\ names = Nothing /\ results = Nothing
    /\ unspecified = 0 /\ workers = Nothing
    /\ data = Nothing /\ G = {} /\ calls = Nothing /\ arguments = Nothing

PaddingFrame ==
    UNCHANGED <<op, input, image, element, points, seed, dilated,
                reconstructed, propagation, centers, marker, mask, k, tvars,
                heap, names, results, unspecified, workers, data, G, calls,
                arguments>>

\* _padding_func(vector, iaxis_pad_width, iaxis, kwargs)
PaddingFunc ==
    /\ op = "_distance" /\ pc = "pad"
    /\ i < Invocations(image)
    /\ \E b \in {Before(image, i + 1)} : \E a \in {After(image, i + 1)} :
         out' = [[out EXCEPT ![b[1]][b[2]] = First(kwargs.pad)]
                      EXCEPT ![a[1]][a[2]] = Last(kwargs.pad)]
    /\ prev' = kwargs.pad
    /\ kwargs' = [kwargs EXCEPT !.pad = padding_func(kwargs.pad)]
    /\ i' = i + 1
    /\ UNCHANGED pc
    /\ PaddingFrame

\* numpy.pad returns the padded array
PadReturn ==
    /\ op = "_distance" /\ pc = "pad"
    /\ i = Invocations(image)
    /\ pc' = "padded"
    /\ UNCHANGED <<out, prev, kwargs, i>>
    /\ PaddingFrame

NextPadding == PaddingFunc \/ PadReturn

SpecPadding == InitPadding /\ [][NextPadding]_vars

\* The latest invocation wrote the pad it started with: its first element
\* before the data, its last element after the data.
WroteFromPad ==
    i >= 1 =>
        /\ out[Before(image, i)[1]][Before(image, i)[2]] = First(prev)
        /\ out[After(image, i)[1]][After(image, i)[2]] = Last(prev)

\* C25 as stated: for every tag and every border_value each invocation of
\* the callback leaves the pad value flipped (0 to 1, 1 to 0), and the
\* values written before and after the data are taken from that state.
C25_PadAlternates ==
    /\ i >= 1 => /\ First(kwargs.pad) = 1 - First(prev)
                 /\ Last(kwargs.pad) = 1 - Last(prev)
    /\ WroteFromPad

\* C25 as amended: on the visium path with border_value 0 the pad is
\* [0, 1] and every invocation flips both elements, so the value before the
\* data and the value after it differ and alternate from one invocation to
\* the next; for every other tag and border_value the pad is
\* [border_value], its one element is flipped twice by every invocation and
\* stays border_value, so the whole border holds border_value.  The padded
\* array is the one _distance computes its distances on.
C25_PadAlternatesOnlyVisiumZero ==
    /\ i >= 1 =>
          IF method = "visium" /\ border_value = 0
          THEN /\ kwargs.pad = <<1 - prev[1], 1 - prev[2]>>
               /\ First(prev) # Last(prev)
               /\ First(prev) = (i - 1) % 2
          ELSE /\ kwargs.pad = prev
               /\ prev = <<border_value>>
    /\ WroteFromPad
    /\ kwargs.pad = PadState(initial_pad(method, border_value), i + 1)
    /\ pc = "padded" =>
          out = pad_with(image, initial_pad(method, border_value))

\* The padding of a remapped 2x2 grid is over: the pad has alternated.
C25_Witness ==
    /\ op = "_distance" /\ pc = "padded"
    /\ method = "visium" /\ border_value = 0
    /\ Rows(image) = 2 /\ Cols(image) = 2
    /\ out[1][2] = 1 /\ out[1][3] = 0 /\ out[4][2] = 0 /\ out[4][3] = 1
    /\ prev = <<1, 0>> /\ kwargs.pad = <<0, 1>>

GeodesicReturned == op = "Center.geodesic" /\ pc = "done"
\* The smallest value of the propagation map over the pixels of label l.
MinPropagation(l) == SetMin({propagation[p[1]][p[2]] : p \in Carrying(l)})

\* C26: the keys of the mapping Center.geodesic returns are exactly the
\* labels of the image; the set of a label is not empty, holds only
\* coordinates that carry the label, and is the set of the label's pixels
\* whose propagation value is the smallest one over the label's pixels.
C26_GeodesicCenters ==
    GeodesicReturned =>
        /\ DOMAIN centers = {input[p[1]][p[2]] : p \in Foreground(input)}
        /\ \A l \in DOMAIN centers :
              /\ centers[l] # {}
              /\ \A p \in centers[l] : input[p[1]][p[2]] = l
              /\ centers[l] =
                    {p \in Carrying(l) :
                        propagation[p[1]][p[2]] = MinPropagation(l)}
        /\ \A p \in Foreground(input) :
              propagation[p[1]][p[2]] =
                  StepsToFill(input, default_footprint(element), {p}, 0)

\* Two labels of one component whose smallest propagation values differ,
\* one of them with a pixel that is not a centre.
C26_Witness ==
    /\ GeodesicReturned
    /\ \E l1, l2 \in DOMAIN centers :
          /\ MinPropagation(l1) > MinPropagation(l2)
          /\ centers[l2] # Carrying(l2)

\* ------------------------------------------------- Counter.naive and .total
\* _count(data, G, method) of modules.py.  data is the sequence of the
\* records (g, x, y) that zip(data['g'], data['x'], data['y']) yields,
\* arguments holds what the caller passed, G is the local set of _count,
\* image the dictionary it builds (pixel [x, y] of numpy is
\* image[g][x + 1][y + 1]), i the number of records handled.
Genes == {"a", "b"}
Records == Genes \X (0..MaxCoordinate) \X (0..MaxCoordinate)
Datasets == UNION {[1..n -> Records] : n \in 1..MaxRecords}
Counters == {"Counter.naive", "Counter.total"}

InitCounter ==
    /\ op \in Counters
    /\ pc = "call"
    /\ method = IF op = "Counter.naive" THEN "naive" ELSE "total"
    /\ arguments \in [data : Datasets, G : {{"a"}, Genes}]
    /\ data = arguments.data
    /\ G = arguments.G
    /\ image = Nothing
    /\ i = 0
    /\ input = Nothing /\ element = None
    /\ tissue = Nothing /\ border_value = 0
    /\ layers = Nothing /\ distances = Nothing
    /\ out = Nothing /\ prev = Nothing /\ k = 0
    /\ points = Nothing /\ propagation = Nothing /\ centers = Nothing
    /\ seed = Nothing /\ dilated = Nothing /\ reconstructed = Nothing
    /\ marker = Nothing /\ mask = Nothing
    /\ heap = Nothing /\ names = Nothing /\ results = Nothing
    /\ unspecified = 0 /\ workers = Nothing /\ kwargs = Nothing
    /\ calls = Nothing

CounterFrame ==
    UNCHANGED <<op, input, element, points, seed, dilated, reconstructed,
                propagation, centers, marker, mask, out, prev, k, tvars,
                heap, names, results, unspecified, workers, kwargs, data,
                calls, arguments>>

\* G = G & set(data['g']); the shape; image[g] = numpy.zeros(shape, int)
CountEnter ==
    /\ op \in Counters /\ pc = "call"
    /\ \E X \in {SetMax({data[n][2] : n \in 1..Len(data)})} :
       \E Y \in {SetMax({data[n][3] : n \in 1..Len(data)})} :
       \E present \in {G \cap {data[n][1] : n \in 1..Len(data)}} :
         /\ G' = present
         /\ image' = [g \in present |-> zeros(X + 1, Y + 1)]
    /\ i' = 0
    /\ pc' = "for"
    /\ CounterFrame

\* one record of the loop: if g in G: image[g][x, y] += 1, and for the
\* naive method G.remove(g)
CountRecord ==
    /\ op \in Counters /\ pc = "for"
    /\ i < Len(data)
    /\ LET g == data[i + 1][1]
           x == data[i + 1][2]
           y == data[i + 1][3]
       IN  IF g \in G
           THEN /\ image' = [image EXCEPT ![g][x + 1][y + 1] = @ + 1]
                /\ G' = IF method = "naive" THEN G \ {g} ELSE G
           ELSE UNCHANGED <<image, G>>
    /\ i' = i + 1
    /\ UNCHANGED pc
    /\ CounterFrame

\* return image
CountReturn ==
    /\ op \in Counters /\ pc = "for"
    /\ i = Len(data)
    /\ pc' = "done"
    /\ UNCHANGED <<image, G, i>>
    /\ CounterFrame

NextCounter == CountEnter \/ CountRecord \/ CountReturn

SpecCounter == InitCounter /\ [][NextCounter]_vars

\* C27: Counter.naive returns, for every gene of G that occurs in the data
\* and every location of the grid, 1 where the data holds a record of the
\* gene at the location and 0 elsewhere.
C27_OncePerLocation ==
    (op = "Counter.naive" /\ pc = "done") =>
        \A g \in arguments.G \cap {data[n][1] : n \in 1..Len(data)} :
            /\ g \in DOMAIN image
            /\ \A p \in Pixels(image[g]) :
                  image[g][p[1]][p[2]] =
                      IF \E n \in 1..Len(data) :
                            data[n] = <<g, p[1] - 1, p[2] - 1>>
                      THEN 1 ELSE 0

\* ----------------------------------------------------------------- backbone
\* backbone(data, mapper, ..., labeler): seven statements, each of them
\* getattr(Morph.modules.<Class>(), stage[0])(data, *(stage[1:])).
\* arguments holds what the caller passed, data the local name data, calls
\* the calls made so far, out the value returned.  What a method computes
\* is left open: its result is the term <<stage, method, argument, rest>>.
\* (a variant: the thresholder before the morphological filter)
StagesSwapped ==
    <<"mapper", "counter", "muxer", "thresholder", "morphological_filter",
      "algebraic_filter", "labeler">>
\* The parameters in the order of the statements of backbone.
Stages ==
    <<"mapper", "counter", "muxer", "morphological_filter", "thresholder",
      "algebraic_filter", "labeler">>
\* The methods of the class each statement instantiates.
Methods(stage) ==
    CASE stage = "mapper" -> {"naive", "visium", "xenium", "custom"}
      [] stage = "counter" -> {"naive", "total", "custom"}
      [] stage = "muxer" -> {"naive", "maximum", "custom"}
      [] stage = "morphological_filter" ->
            {"naive", "opening", "closing", "open_close", "close_open",
             "custom"}
      [] stage = "thresholder" -> {"naive", "binary", "custom"}
      [] stage = "algebraic_filter" ->
            {"naive", "area_opening", "area_closing", "custom"}
      [] stage = "labeler" -> {"naive", "blob", "custom"}
\* The lists a caller passes for a stage: a method without further
\* arguments, a method with one, a name the class does not have.
StageLists(stage) ==
    {<<"naive">>, <<"unknown">>,
     CASE stage = "mapper" -> <<"xenium", "d">>
       [] stage = "counter" -> <<"total", "G">>
       [] stage = "muxer" -> <<"custom", "muxer">>
       [] stage = "morphological_filter" -> <<"opening", "element">>
       [] stage = "thresholder" -> <<"binary", "tau">>
       [] stage = "algebraic_filter" -> <<"area_opening", "lambda_">>
       [] stage = "labeler" -> <<"blob", "element">>}
Position(stage) == CHOOSE n \in 1..Len(Stages) : Stages[n] = stage

InitBackbone ==
    /\ op = "backbone"
    /\ pc = Stages[1]
    /\ arguments \in
          [data : {"data"},
           mapper : StageLists("mapper"),
           counter : StageLists("counter"),
           muxer : StageLists("muxer"),
           morphological_filter : StageLists("morphological_filter"),
           thresholder : StageLists("thresholder"),
           algebraic_filter : StageLists("algebraic_filter"),
           labeler : StageLists("labeler")]
    /\ data = arguments.data
    /\ calls = <<>>
    /\ out = Nothing
    /\ G = {}
    /\ image = Nothing /\ i = 0
    /\ input = Nothing /\ element = None
    /\ NoTransform
    /\ prev = Nothing /\ k = 0
    /\ points = Nothing /\ propagation = Nothing /\ centers = Nothing
    /\ seed = Nothing /\ dilated = Nothing /\ reconstructed = Nothing
    /\ marker = Nothing /\ mask = Nothing
    /\ heap = Nothing /\ names = Nothing /\ results = Nothing
    /\ unspecified = 0 /\ workers = Nothing /\ kwargs = Nothing

BackboneFrame ==
    UNCHANGED <<op, input, image, element, points, seed, dilated,
                reconstructed, i, propagation, centers, marker, mask, prev,
                k, tvars, heap, names, results, unspecified, workers, kwargs,
                G, arguments>>

\* The statement of one stage: getattr raises for a name the class does
\* not have; the method is called with data and the rest of the list, and
\* returns or raises; what it returns is bound to data, and the value of
\* the last statement is returned.
Stage(stage) ==
    /\ op = "backbone" /\ pc = stage
    /\ LET list == arguments[stage]
           n == Position(stage)
           call == [stage |-> stage, method |-> list[1], argument |-> data,
                    rest |-> Tail(list), outcome |-> "returned",
                    result |-> <<stage, list[1], data, Tail(list)>>]
       IN  \/ /\ list[1] \notin Methods(stage)
              /\ pc' = "raised"
              /\ UNCHANGED <<calls, data, out>>
           \/ /\ list[1] \in Methods(stage)
              /\ calls' = Append(calls, [call EXCEPT !.outcome = "raised",
                                                     !.result = Nothing])
              /\ pc' = "raised"
              /\ UNCHANGED <<data, out>>
           \/ /\ list[1] \in Methods(stage)
              /\ calls' = Append(calls, call)
              /\ IF n < Len(Stages)
                 THEN /\ data' = call.result
                      /\ pc' = Stages[n + 1]
                      /\ UNCHANGED out
                 ELSE /\ out' = call.result
                      /\ pc' = "returned"
                      /\ UNCHANGED data
    /\ BackboneFrame

NextBackbone == \E n \in 1..Len(Stages) : Stage(Stages[n])

SpecBackbone == InitBackbone /\ [][NextBackbone]_vars

\* The order of the stages as the pipeline is described.
Order ==
    <<"mapper", "counter", "muxer", "morphological_filter", "thresholder",
      "algebraic_filter", "labeler">>

\* C28: the stages are called in the order mapping, counting, muxing,
\* morphological filtering, thresholding, algebraic filtering, labeling,
\* each at most once and exactly once when backbone returns; a stage gets
\* as its first argument what the stage before it returned (the caller's
\* data for the mapper), followed by the rest of its list; the value
\* returned is the labeler's; after an error no further stage is called.
C28_Pipeline ==
    /\ Len(calls) <= Len(Order)
    /\ \A n \in 1..Len(calls) :
          /\ calls[n].stage = Order[n]
          /\ calls[n].method = arguments[Order[n]][1]
          /\ calls[n].rest = Tail(arguments[Order[n]])
          /\ calls[n].argument =
                IF n = 1 THEN arguments.data ELSE calls[n - 1].result
          /\ n < Len(calls) => calls[n].outcome = "returned"
    /\ pc = "returned" =>
          /\ Len(calls) = Len(Order)
          /\ calls[Len(calls)].outcome = "returned"
          /\ out = calls[Len(calls)].result
    /\ pc = "raised" =>
          /\ ~ENABLED NextBackbone
          /\ out = Nothing
          /\ Len(calls) < Len(Order) \/ calls[Len(calls)].outcome = "raised"
    /\ pc \notin {"returned", "raised"} =>
          /\ Len(calls) < Len(Order) /\ pc = Order[Len(calls) + 1]
          /\ \A n \in 1..Len(calls) : calls[n].outcome = "returned"

\* backbone has returned the labeler's value after seven calls.
C28_Witness ==
    /\ op = "backbone" /\ pc = "returned"
    /\ Len(calls) = 7
    /\ arguments.labeler = <<"blob", "element">>
    /\ out = <<"labeler", "blob", calls[6].result, <<"element">>>>
    /\ calls[5].argument = calls[4].result

\* --------------------------------------- propagation_function and the labels
\* A caller hands propagation_function a labeled image, then the binary
\* support of that image (1 where the image is not 0), with one element;
\* results holds what the two calls gave.
InitSupport ==
    /\ op = "propagation_function"
    /\ pc = "call"
    /\ element \in Elements
    /\ input \in WideImages
    /\ image = input
    /\ results = <<>>
    /\ propagation = Nothing /\ i = 0
    /\ points = Nothing /\ centers = Nothing
    /\ seed = Nothing /\ dilated = Nothing /\ reconstructed = Nothing
    /\ marker = Nothing /\ mask = Nothing
    /\ out = Nothing /\ prev = Nothing /\ k = 0
    /\ NoTransform
    /\ heap = Nothing /\ names = Nothing
    /\ unspecified = 0 /\ workers = Nothing /\ kwargs = Nothing
    /\ data = Nothing /\ G = {} /\ calls = Nothing /\ arguments = Nothing

SupportFrame ==
    UNCHANGED <<op, input, element, points, seed, dilated, reconstructed,
                centers, marker, mask, out, prev, k, tvars, heap, names,
                unspecified, workers, kwargs, data, G, calls, arguments>>

\* propagation_function(image, element)
CallLabeled ==
    /\ op = "propagation_function" /\ pc = "call"
    /\ \E pf \in {propagation_function(image, element)} :
         /\ results' = Append(results, pf)
         /\ propagation' = pf.propagation
         /\ i' = pf.passes
    /\ pc' = "support"
    /\ UNCHANGED image
    /\ SupportFrame

\* propagation_function of the support of the image, same element
CallSupport ==
    /\ op = "propagation_function" /\ pc = "support"
    /\ \E support \in {not_equal(input)} :
       \E pf \in {propagation_function(support, element)} :
         /\ image' = support
         /\ results' = Append(results, pf)
         /\ propagation' = pf.propagation
         /\ i' = pf.passes
    /\ pc' = "done"
    /\ SupportFrame

NextSupport == CallLabeled \/ CallSupport

SpecSupport == InitSupport /\ [][NextSupport]_vars

\* C29: propagation_function gives for a labeled image what it gives for
\* the binary support of the image: the same map when it returns, and it
\* returns for the one exactly if it returns for the other.  The growth of
\* a seed is the growth in the support, across the borders between labels:
\* the value at a pixel is the number of growth steps from it to its whole
\* component of the support.
C29_LabelBlind ==
    pc = "done" =>
        /\ results[1] = results[2]
        /\ results[1].returns =>
              \A p \in Foreground(input) :
                  results[1].propagation[p[1]][p[2]] =
                      StepsToFill(image, default_footprint(element), {p}, 0)

\* Two touching pixels of different labels: the seed on either has grown
\* into the other, and the map holds 1 at both.
C29_Witness ==
    /\ pc = "done" /\ Len(results) = 2 /\ results[1].returns
    /\ input # image
    /\ \E p, q \in Foreground(input) :
          /\ input[p[1]][p[2]] # input[q[1]][q[2]]
          /\ Adjacent(Cross, p, q)
          /\ Foreground(input) = {p, q}
          /\ results[1].propagation[p[1]][p[2]] = 1
          /\ results[1].propagation[q[1]][q[2]] = 1

\* The cells of the remapped grid of the caller's R x C image, the cells of
\* the checkerboard among them (x + y even, counted from 0), and the row
\* (x + y) // 2 of numpy of a cell.
Grid == (1..(2 * Rows(input) - Cols(input))) \X (1..Cols(input))
Even(cell) == ((cell[1] - 1) + (cell[2] - 1)) % 2 = 0
Halved(cell) == ((cell[1] - 1) + (cell[2] - 1)) \div 2
\* The image as the call of _distance that has just returned had it after
\* its line image[tissue == 0] = border_value, and the grid made of it.
Handed == assign_where_zero(image, tissue_or_ones(tissue, input), border_value)
HandedGrid == unmapped(Handed)

\* C30: on the visium path, for an R x C image with 2R > C, the cells
\* used are exactly the checkerboard cells of the (2R-C) x C grid; each is
\* read from and written back to row (x + y) // 2 and column y, which lie
\* in the R x C array; the other cells of the grid hold 1; the array mapped
\* back has the shape R x C of the image and of the tissue mask.
C30_RemapInRange ==
    Remapped =>
        /\ {points[n] : n \in 1..Len(points)} = {cell \in Grid : Even(cell)}
        /\ Rows(HandedGrid) = 2 * Rows(input) - Cols(input)
        /\ Cols(HandedGrid) = Cols(input)
        /\ \A cell \in Grid :
              IF Even(cell)
              THEN /\ Halved(cell) \in 0..Rows(input) - 1
                   /\ cell[2] - 1 \in 0..Cols(input) - 1
                   /\ forward(cell) = Halved(cell) + 1
                   /\ HandedGrid[cell[1]][cell[2]] =
                         Handed[Halved(cell) + 1][cell[2]]
              ELSE HandedGrid[cell[1]][cell[2]] = 1
        /\ Rows(distances) = Rows(input) /\ Cols(distances) = Cols(input)
        /\ tissue # Nothing =>
              Rows(tissue) = Rows(distances) /\ Cols(tissue) = Cols(distances)

\* A 3 x 2 image: the grid is 4 x 2, the cell (3, 1) of numpy goes to row 2,
\* and a distance has been written back there.
C30_Witness ==
    /\ Remapped /\ pc = "done"
    /\ Rows(input) = 3 /\ Cols(input) = 2
    /\ Len(points) = 4
    /\ <<4, 2>> \in {points[n] : n \in 1..Len(points)}
    /\ distances[3][2] # 0

====
